---- MODULE Spec2Model ----
(***************************************************************************)
(* Verification model of sdktomcp: the generic runtime dispatch service    *)
(* (src/server/app.py), the implementation-tier MCP server that the        *)
(* generator of src/sdk4.py emits (src/generated_mcp_servers), the REST    *)
(* mapper (src/converter/mapper.py) with the OpenAPI document generator    *)
(* (src/converter/oprnai_generator.py), the two MCP tool pipelines         *)
(* (src/sdk2.py, src/sdk4.py), and their command-line orchestrators with   *)
(* discovery and artifact generation, and the dynamic auto-registrar       *)
(* (src/main.py).                                                          *)
(*                                                                         *)
(* Text is modelled as the sequence of its characters (a tuple of          *)
(* one-character strings), so prefix and substring tests, split, strip,    *)
(* slicing, lengths and lower-casing are computed as the code computes     *)
(* them.                                                                   *)
(***************************************************************************)
EXTENDS Integers, Sequences, FiniteSets, TLC

VARIABLES
    component,       \* which program of the repository this run is
    \* ---- generic dispatch service (src/server/app.py)
    ROUTES,          \* the in-memory registry, a sequence of route objects
    seeded,          \* the routes startup_event loaded from routes.json
    registered,      \* every object ever passed to /register, in order
    last,            \* the last request handled and its response
    \* ---- generated implementation-tier server (src/sdk4.py template)
    profile,         \* the SDK profile the server was generated for
    construction,    \* what constructing the client does here: "succeeds" | "fails"
    process,         \* the server process: "starting" | "serving" | "failed to load"
    TOOLS,           \* the static tool list of the generated source
    branches,        \* the dispatch branches of handle_tool_call, in order
    sdk_client,      \* the client singleton: "unbound" | "unset" | "set"
    constructions,   \* how many times client construction was attempted
    libraryCalls,    \* how many times a wrapped-library method was invoked
    escaped,         \* TRUE once a failure has left handle_tool_call
    calls,           \* the tool calls clients made so far, with their replies
    \* ---- REST mapper (src/converter/mapper.py)
    mapIn,           \* the input of the mapper run
    mapOut,          \* the operations map_many returned
    openapi,         \* the OpenAPI document generated from them
    \* ---- MCP tool pipelines (src/sdk2.py, src/sdk4.py)
    toolIn,          \* the input of the analysis run
    toolOut,         \* the tool definitions analyze_methods returned
    \* ---- command-line orchestrators and discovery
    cliIn,           \* the input of the command-line run
    cli,             \* the running process
    runs,            \* the processes that ran before it on the same input
    \* ---- dynamic auto-registrar (src/main.py)
    autoIn,          \* the environment and command line of the run
    auto             \* the registrar process

dispatchVars == <<ROUTES, seeded, registered, last>>
serverVars   == <<profile, construction, process, TOOLS, branches, sdk_client,
                 constructions, libraryCalls, escaped, calls>>
mapperVars   == <<mapIn, mapOut, openapi>>
toolVars     == <<toolIn, toolOut>>
cliVars      == <<cliIn, cli, runs>>
autoVars     == <<autoIn, auto>>
vars == <<component, dispatchVars, serverVars, mapperVars, toolVars, cliVars, autoVars>>

\* What a step of one program leaves alone: the other programs' state.
dispatchFrame == <<component, serverVars, mapperVars, toolVars, cliVars, autoVars>>
serverFrame   == <<component, dispatchVars, mapperVars, toolVars, cliVars, autoVars>>
mapperFrame   == <<component, dispatchVars, serverVars, toolVars, cliVars, autoVars>>
toolFrame     == <<component, dispatchVars, serverVars, mapperVars, cliVars, autoVars>>
cliFrame      == <<component, dispatchVars, serverVars, mapperVars, toolVars, autoVars>>
autoFrame     == <<component, dispatchVars, serverVars, mapperVars, toolVars, cliVars>>

(***************************************************************************)
(* Generic helpers on sequences                                            *)
(***************************************************************************)
\* Sequences over S of length at most n.
SeqUpTo(S, n) == UNION {[1..k -> S] : k \in 0..n}

\* The set of elements of a sequence.
Range(s) == {s[i] : i \in 1..Len(s)}

\* The sequences over S of length at most n without a repeated element: a
\* class lists each of its members once.
RECURSIVE DistinctSeqUpTo(_, _)
DistinctSeqUpTo(S, n) ==
    IF n = 0 THEN {<<>>}
    ELSE LET shorter == DistinctSeqUpTo(S, n - 1)
         IN  shorter \cup UNION {{Append(q, x) : x \in S \ Range(q)} : q \in shorter}

\* Python's None, where a dict lookup or a function falls through.
NoneVal == <<"None">>

(***************************************************************************)
(* Generic dispatch service (src/server/app.py)                            *)
(***************************************************************************)
MaxRoutes == 1      \* registry entries added by /register
MaxSeed   == 1      \* entries of routes.json

\* Operation identifiers of requests and routes; <<>> is the empty string.
OpA == <<"o", "p", "A">>
OpB == <<"o", "p", "B">>
OpIds == {OpA, OpB}

\* `callable` strings, "<module>:<qualifiedName>".
CallOk         == <<"m", "o", "d", "_", "o", "k", ":", "f", "n", "_", "o", "k">>
CallNoColon    == <<"m", "o", "d", "_", "o", "k", "f", "n", "_", "o", "k">>
CallNoModule   == <<"m", "o", "d", "_", "m", "i", "s", "s", "i", "n", "g", ":", "f", "n", "_", "o", "k">>
CallNoSymbol   == <<"m", "o", "d", "_", "o", "k", ":", "f", "n", "_", "m", "i", "s", "s", "i", "n", "g">>
CallRaises     == <<"m", "o", "d", "_", "o", "k", ":", "f", "n", "_", "r", "a", "i", "s", "e", "s">>
CallEmpty      == <<>>
CallableStrings ==
    {CallOk, CallNoColon, CallNoModule, CallNoSymbol, CallRaises}

\* The environment of the process: which modules importlib can load, which
\* symbols they hold, and which of those raise when called.
ImportableModules == {<<"m", "o", "d", "_", "o", "k">>}
ModuleSymbols     == {<<"f", "n", "_", "o", "k">>, <<"f", "n", "_", "r", "a", "i", "s", "e", "s">>}
RaisingSymbols    == {<<"f", "n", "_", "r", "a", "i", "s", "e", "s">>}

\* What calling symbol `qual` with `args` returns.
CallResult(qual, args) == <<"r", "e", "s", "u", "l", "t">> \o qual \o args

Args == {<<"a", "1">>, <<"a", "2">>}

\* A route object: a JSON object that may or may not carry each field.
RouteObjects ==
    [hasOpId: BOOLEAN, operationId: OpIds \cup {<<>>},
     hasCallable: BOOLEAN, callable: CallableStrings \cup {CallEmpty}]

\* dict.get(key): the field, or None when the object has no such key.
GetOperationId(r) == IF r.hasOpId THEN r.operationId ELSE NoneVal
GetCallable(r)    == IF r.hasCallable THEN r.callable ELSE NoneVal

\* Python truthiness of a value that is None or a string.
Truthy(v) == v # NoneVal /\ v # <<>>

\* Canonical route objects: an absent field holds no value.
Canonical(r) ==
    /\ (r.hasOpId <=> r.operationId # <<>>)
    /\ (r.hasCallable <=> r.callable # CallEmpty)
\* The routes of the model: every shape of route for OpA, and a well-formed
\* route for OpB and for no operationId.
Routes ==
    {r \in RouteObjects :
        Canonical(r) /\ (r.operationId # OpA => r.callable = CallOk)}

\* Request bodies of POST /invoke.
Payloads ==
    {p \in [hasOpId: BOOLEAN, operationId: OpIds \cup {<<>>}, args: Args] :
        ~p.hasOpId => p.operationId = <<>>}

\* str.split(sep, 1): the text before the first separator and the text after
\* it, or the whole text alone when it holds no separator.
SplitOnce(s, sep) ==
    IF \E i \in 1..Len(s) : s[i] = sep
    THEN LET i == CHOOSE k \in 1..Len(s) :
                      s[k] = sep /\ \A j \in 1..(k-1) : s[j] # sep
         IN  <<SubSeq(s, 1, i-1), SubSeq(s, i+1, Len(s))>>
    ELSE <<s>>

\* Mutant: a route without an operationId matches every request
\* (r.get("operationId", opid) == opid).
MatchIndexes_MissingIdMatches(routes, opid) ==
    {i \in 1..Len(routes) : ~routes[i].hasOpId \/ GetOperationId(routes[i]) = opid}

\* next((r for r in ROUTES if r.get("operationId") == opid), None)
MatchIndexes(routes, opid) ==
    {i \in 1..Len(routes) : GetOperationId(routes[i]) = opid}
\* Mutant: the most recently added matching entry wins.
FirstMatch_Latest(routes, opid) ==
    LET I == MatchIndexes(routes, opid)
    IN  routes[CHOOSE i \in I : \A j \in I : i >= j]
FirstMatch(routes, opid) ==
    LET I == MatchIndexes(routes, opid)
    IN  routes[CHOOSE i \in I : \A j \in I : i <= j]

Response(status, body) == [status |-> status, body |-> body]

\* The status of an HTTPException, or of an exception the handler lets out
\* (the framework answers 500).
HttpError(status) == Response(status, <<"e", "r", "r", "o", "r">>)

\* invoke(payload): the response of POST /invoke against registry `routes`.
InvokeResponse(routes, payload) ==
    LET opid == IF payload.hasOpId THEN payload.operationId ELSE NoneVal
    IN  IF ~Truthy(opid) THEN HttpError(400)
        ELSE IF MatchIndexes(routes, opid) = {} THEN HttpError(404)
        ELSE LET route  == FirstMatch(routes, opid)
                 target == GetCallable(route)
             IN  IF ~Truthy(target) THEN HttpError(500)
                 ELSE LET parts == SplitOnce(target, ":")
                      IN  IF Len(parts) # 2 THEN HttpError(500)
                          ELSE IF parts[1] \notin ImportableModules
                               THEN HttpError(500)
                               ELSE Response(200, NoneVal)

NoRequest == [ep |-> "none", status |-> 0, body |-> NoneVal, route |-> NoneVal,
              payload |-> [hasOpId |-> FALSE, operationId |-> <<>>, args |-> <<"a", "1">>]]

\* startup_event: the registry starts with the routes of routes.json, or
\* empty when the file does not exist.
DispatchInit ==
    /\ seeded \in SeqUpTo(Routes, MaxSeed)
    /\ ROUTES = seeded
    /\ registered = <<>>
    /\ last = NoRequest

\* GET /health
health ==
    /\ component = "dispatch"
    /\ last' = [NoRequest EXCEPT !.ep = "health", !.status = 200, !.body = <<"o", "k">>]
    /\ UNCHANGED <<ROUTES, seeded, registered, dispatchFrame>>

\* Mutant: /register replaces the entry that has the same operationId
\* instead of appending.
register_route_Upsert(route) ==
    /\ component = "dispatch"
    /\ Len(registered) < MaxRoutes
    /\ ROUTES' = IF MatchIndexes(ROUTES, GetOperationId(route)) = {}
                 THEN Append(ROUTES, route)
                 ELSE [i \in 1..Len(ROUTES) |->
                          IF GetOperationId(ROUTES[i]) = GetOperationId(route)
                          THEN route ELSE ROUTES[i]]
    /\ registered' = Append(registered, route)
    /\ last' = [NoRequest EXCEPT !.ep = "register", !.status = 200,
                                 !.body = <<"r", "e", "g", "i", "s", "t", "e", "r", "e", "d">>, !.route = route]
    /\ UNCHANGED <<seeded, dispatchFrame>>

\* POST /register. The handlers are coroutines without an await, so the event
\* loop runs each handler body to its end before it starts another: a request
\* is one step, and concurrent requests are the steps in any order. The reply
\* is {"registered": route}: `body` is the key and `route` the value under it.
register_route(route) ==
    /\ component = "dispatch"
    /\ Len(registered) < MaxRoutes
    /\ ROUTES' = Append(ROUTES, route)
    /\ registered' = Append(registered, route)
    /\ last' = [NoRequest EXCEPT !.ep = "register", !.status = 200,
                                 !.body = <<"r", "e", "g", "i", "s", "t", "e", "r", "e", "d">>, !.route = route]
    /\ UNCHANGED <<seeded, dispatchFrame>>

\* POST /invoke
invoke(payload) ==
    LET r == InvokeResponse(ROUTES, payload)
    IN  /\ component = "dispatch"
        /\ last' = [NoRequest EXCEPT !.ep = "invoke", !.status = r.status,
                                     !.body = r.body, !.payload = payload]
        /\ UNCHANGED <<ROUTES, seeded, registered, dispatchFrame>>

DispatchNext ==
    \/ health
    \/ \E route \in Routes : register_route(route)
    \/ \E payload \in Payloads : invoke(payload)


(***************************************************************************)
(* Generated implementation-tier server: the source that                   *)
(* MCPServerGenerator._generate_server_code of src/sdk4.py emits (as in    *)
(* src/generated_mcp_servers/kubernetes_mcp_server.py), the loading of     *)
(* that source by the Python interpreter, and its handle_tool_call         *)
(***************************************************************************)
MaxTools == 2       \* tool definitions handed to the generator
MaxCalls == 2       \* tool calls clients make to one server process

\* str.split(sep): the pieces between the separators.
RECURSIVE SplitAll(_, _)
SplitAll(s, sep) ==
    IF \E i \in 1..Len(s) : s[i] = sep
    THEN LET parts == SplitOnce(s, sep)
         IN  <<parts[1]>> \o SplitAll(parts[2], sep)
    ELSE <<s>>

\* ---- the generated source, line by line

\* A line of Python source as the tokenizer reads it: the number of leading
\* blanks, its kind ("open": a statement ending in ':' that needs an indented
\* block; "stmt": any other statement line; "comment"; "blank") and the
\* number of brackets it opens minus the number it closes.
Line(indent, kind, delta) == [indent |-> indent, kind |-> kind, delta |-> delta]
Stmt(n)     == Line(n, "stmt", 0)
Open(n)     == Line(n, "open", 0)
Comment(n)  == Line(n, "comment", 0)
Blank       == Line(0, "blank", 0)
Begin(n, k) == Line(n, "stmt", k)
End(n, k)   == Line(n, "stmt", 0 - k)

\* SDK_MAPPINGS['kubernetes']['client_init']: the first line follows the
\* opening quotes, the others carry the indentation they have in sdk4.py.
client_init_kubernetes ==
    << Open(0),       \* try:
       Stmt(8),       \*         from kubernetes import client, config
       Comment(8),    \*         # Try in-cluster config first, ...
       Open(8),       \*         try:
       Stmt(12),      \*             config.load_incluster_config()
       Open(8),       \*         except:
       Stmt(12),      \*             config.load_kube_config()
       Blank,
       Comment(8),    \*         # Initialize API clients
       Stmt(8),       \*         self.core_v1 = client.CoreV1Api()
       Stmt(8),       \*         self.apps_v1 = client.AppsV1Api()
       Stmt(8),       \*         self.networking_v1 = client.NetworkingV1Api()
       Stmt(8),       \*         self.batch_v1 = client.BatchV1Api()
       Blank,
       Comment(8),    \*         # Client mapping for dynamic access
       Begin(8, 1),   \*         self.clients = {
       Stmt(12),      \*             'CoreV1Api': self.core_v1,
       Stmt(12),      \*             'AppsV1Api': self.apps_v1,
       Stmt(12),      \*             'NetworkingV1Api': self.networking_v1,
       Stmt(12),      \*             'BatchV1Api': self.batch_v1
       End(8, 1),     \*         }
       Open(4),       \*     except Exception as e:
       Stmt(8),       \*         logger.error(...)
       Stmt(8) >>     \*         raise

\* SDK_MAPPINGS['kubernetes']['method_template']
method_template_kubernetes ==
    << Comment(0),    \* # Extract client and method from path
       Stmt(12),      \*             path_parts = "{method_path}".split('.')
       Stmt(12),      \*             client_class = path_parts[-2] if ... else "CoreV1Api"
       Stmt(12),      \*             method_name = path_parts[-1]
       Blank,
       Stmt(12),      \*             client_instance = sdk_client.clients.get(client_class)
       Open(12),      \*             if not client_instance:
       Stmt(16),      \*                 raise ValueError(f"Unknown client class: ...")
       Blank,
       Stmt(12),      \*             method = getattr(client_instance, method_name)
       Stmt(12),      \*             result = method(**arguments)
       Blank,
       Comment(12),   \*             # Convert Kubernetes objects to dict ...
       Open(12),      \*             if hasattr(result, 'to_dict'):
       Stmt(16),      \*                 result = result.to_dict()
       Open(12),      \*             elif hasattr(result, 'items') and result.items:
       Begin(16, 1),  \*                 result = {
       Stmt(20),      \*                     'items': [...],
       Stmt(20),      \*                     'metadata': ...
       End(16, 1),    \*                 }
       Open(12),      \*             else:
       Stmt(16) >>    \*                 result = str(result)

\* SDK_MAPPINGS['github']['client_init']
client_init_github ==
    << Open(0),       \* try:
       Stmt(8),       \*         from github import Github
       Stmt(8),       \*         import os
       Blank,
       Comment(8),    \*         # Get token from environment or config
       Stmt(8),       \*         token = os.getenv('GITHUB_TOKEN')
       Open(8),       \*         if not token:
       Stmt(12),      \*             raise ValueError(...)
       Blank,
       Stmt(8),       \*         self.github = Github(token)
       Stmt(8),       \*         self.clients = {'Github': self.github}
       Open(4),       \*     except Exception as e:
       Stmt(8),       \*         logger.error(...)
       Stmt(8) >>     \*         raise

\* SDK_MAPPINGS['github']['method_template']
method_template_github ==
    << Comment(0),    \* # GitHub client method execution
       Stmt(12),      \*             method = getattr(sdk_client.github, "{method_name}")
       Stmt(12),      \*             result = method(**arguments)
       Blank,
       Comment(12),   \*             # Convert GitHub objects to serializable format
       Open(12),      \*             if hasattr(result, '__dict__'):
       Comment(16),   \*                 # Handle GitHub objects
       Stmt(16),      \*                 result = {k: v for ...}
       Open(12),      \*             elif hasattr(result, '__iter__') and ...:
       Comment(16),   \*                 # Handle lists/iterables
       Stmt(16),      \*                 result = [... for item in result]
       Open(12),      \*             else:
       Stmt(16) >>    \*                 result = str(result)

\* SDK_MAPPINGS['azure']['client_init']
client_init_azure ==
    << Open(0),       \* try:
       Stmt(8),       \*         from azure.identity import DefaultAzureCredential
       Stmt(8),       \*         from azure.mgmt.compute import ComputeManagementClient
       Stmt(8),       \*         import os
       Blank,
       Stmt(8),       \*         subscription_id = os.getenv('AZURE_SUBSCRIPTION_ID')
       Open(8),       \*         if not subscription_id:
       Stmt(12),      \*             raise ValueError(...)
       Blank,
       Stmt(8),       \*         credential = DefaultAzureCredential()
       Stmt(8),       \*         self.compute_client = ComputeManagementClient(...)
       Stmt(8),       \*         self.clients = {'ComputeManagementClient': ...}
       Open(4),       \*     except Exception as e:
       Stmt(8),       \*         logger.error(...)
       Stmt(8) >>     \*         raise

\* SDK_MAPPINGS['azure']['method_template']
method_template_azure ==
    << Comment(0),    \* # Azure client method execution
       Stmt(12),      \*             client_instance = sdk_client.compute_client
       Stmt(12),      \*             method = getattr(client_instance, "{method_name}")
       Stmt(12),      \*             result = method(**arguments)
       Blank,
       Comment(12),   \*             # Handle Azure response objects
       Open(12),      \*             if hasattr(result, 'as_dict'):
       Stmt(16),      \*                 result = result.as_dict()
       Open(12),      \*             elif hasattr(result, '__dict__'):
       Stmt(16),      \*                 result = {k: v for ...}
       Open(12),      \*             else:
       Stmt(16) >>    \*                 result = str(result)

\* The profile SDKIntrospector.__init__ builds for a library without
\* mapping: both templates are a single TODO comment.
client_init_generic     == << Comment(0) >>   \* # TODO: Initialize <sdk> client
method_template_generic == << Comment(0) >>   \* # TODO: Implement method execution for <sdk>

\* The profiles: SDK_MAPPINGS and the generic one.
Profiles == {"kubernetes", "github", "azure", "generic"}
sdk_config(name) ==
    CASE name = "kubernetes" ->
            [client_init |-> client_init_kubernetes,
             method_template |-> method_template_kubernetes]
      [] name = "github" ->
            [client_init |-> client_init_github,
             method_template |-> method_template_github]
      [] name = "azure" ->
            [client_init |-> client_init_azure,
             method_template |-> method_template_azure]
      [] OTHER ->
            [client_init |-> client_init_generic,
             method_template |-> method_template_generic]

\* _indent_code(code, spaces): every line that is not blank gets `spaces`
\* more leading blanks.
indent_code(code, spaces) ==
    [i \in 1..Len(code) |->
        IF code[i].kind = "blank" THEN code[i]
        ELSE [code[i] EXCEPT !.indent = @ + spaces]]

\* The concatenation of a sequence of line sequences.
RECURSIVE Flatten(_)
Flatten(blocks) ==
    IF blocks = <<>> THEN <<>> ELSE Head(blocks) \o Flatten(Tail(blocks))

\* One entry of the TOOLS list, inside the brackets of the list.
ToolDefinitionLines ==
    << Begin(4, 1),   \*     Tool(
       Stmt(4),       \*     name="<tool.name>",
       Stmt(4),       \*     description="<description>",
       Stmt(4),       \*     input_schema=<json>
       End(0, 1) >>   \* )

\* One dispatch branch: the elif line, the comment with the method path and
\* the tool's implementation (the method template, filled in) indented by 12.
BranchLines(config) ==
    << Open(8),       \*         elif name == "<tool.name>":
       Comment(12) >> \*             # <tool.method_path>
    \o indent_code(config.method_template, 12)

\* _generate_server_code(tools, sdk_name, sdk_config): the server template
\* from the client wrapper class to the end of handle_tool_call.  The lines
\* before it (imports, logging, the Server object) and after it (main) are
\* well-formed statements of the template itself.
generate_server_code(tools, config) ==
    << Open(0),       \* class <Sdk>Client:
       Stmt(4),       \*     """Client wrapper for <sdk> SDK"""
       Blank,
       Open(4) >>     \*     def __init__(self):
    \o indent_code(config.client_init, 8)
    \o << Blank, Blank,
          Comment(0),    \* # Global client instance
          Open(0),       \* try:
          Stmt(4),       \*     sdk_client = <Sdk>Client()
          Stmt(4),       \*     logger.info(...)
          Open(0),       \* except Exception as e:
          Stmt(4),       \*     logger.error(...)
          Stmt(4),       \*     sdk_client = None
          Blank, Blank,
          Comment(0),    \* # Tool definitions (<n> tools)
          Begin(0, 1) >> \* TOOLS = [
    \o Flatten([i \in 1..Len(tools) |-> ToolDefinitionLines])
    \o << End(0, 1),     \* ]
          Blank, Blank,
          Stmt(0),       \* @server.list_tools()
          Open(0),       \* async def list_tools() -> List[Tool]:
          Stmt(4),       \*     """List available tools"""
          Stmt(4),       \*     return TOOLS
          Blank, Blank,
          Stmt(0),       \* @server.call_tool()
          Open(0),       \* async def handle_tool_call(name, arguments):
          Stmt(4),       \*     """Handle all tool calls ..."""
          Open(4),       \*     try:
          Open(8),       \*         if not sdk_client:
          Begin(12, 2),  \*             return [TextContent(
          Stmt(16),      \*                 type="text",
          Stmt(16),      \*                 text=json.dumps({"error": "SDK client not initialized"}, ...)
          End(12, 2),    \*             )]
          Blank,
          Stmt(8),       \*         logger.info(...)
          Blank,
          Comment(8),    \*         # Route to appropriate implementation
          Stmt(8),       \*         result = None
          Open(8),       \*         if False:
          Stmt(12) >>    \*             pass
    \o Flatten([i \in 1..Len(tools) |-> BranchLines(config)])
    \o << Open(8),       \*         else:
          Stmt(12),      \*             result = {"error": f"Unknown tool: {name}"}
          Blank,
          Begin(8, 2),   \*         return [TextContent(
          Stmt(12),      \*             type="text",
          Stmt(12),      \*             text=json.dumps(result, indent=2, default=str)
          End(8, 2),     \*         )]
          Blank,
          Open(4),       \*     except Exception as e:
          Stmt(8),       \*         logger.error(...)
          Begin(8, 2),   \*         return [TextContent(
          Stmt(12),      \*             type="text",
          Stmt(12),      \*             text=json.dumps({"error": str(e)}, indent=2)
          End(8, 2) >>   \*         )]

\* ---- loading the source

\* The block structure Python requires of a source before it runs any of
\* it: blank lines, comments and the lines inside open brackets do not
\* count; the line after an "open" line is indented deeper than it; any
\* other line is indented as its block is, or as an enclosing block is.
\* `stack` holds the indentation of the enclosing blocks, `expect` whether
\* the line before opened a block, `depth` the brackets now open.
RECURSIVE WellIndented(_, _, _, _, _)
WellIndented(lines, i, stack, expect, depth) ==
    IF i > Len(lines) THEN ~expect
    ELSE LET l == lines[i]
         IN  IF depth > 0
             THEN WellIndented(lines, i + 1, stack, expect, depth + l.delta)
             ELSE IF l.kind \in {"blank", "comment"}
             THEN WellIndented(lines, i + 1, stack, expect, depth)
             ELSE LET top == stack[Len(stack)]
                      enclosing == {k \in 1..Len(stack) : stack[k] <= l.indent}
                      kept == SubSeq(stack, 1,
                                     CHOOSE k \in enclosing : \A j \in enclosing : j <= k)
                  IN  IF expect
                      THEN /\ l.indent > top
                           /\ WellIndented(lines, i + 1, Append(stack, l.indent),
                                           l.kind = "open", l.delta)
                      ELSE /\ l.indent <= top
                           /\ kept[Len(kept)] = l.indent
                           /\ WellIndented(lines, i + 1, kept, l.kind = "open", l.delta)

\* Whether the interpreter can load a source: it compiles the whole file
\* before it runs the first statement.
Loads(source) == WellIndented(source, 1, <<0>>, FALSE, 0)

\* ---- the tools of a generated server and the calls clients make

\* Recorded method paths, "<module path>.<class>.<method>".
PathListPod    == <<"k", "u", "b", "e", "r", "n", "e", "t", "e", "s", ".", "c", "l", "i", "e", "n", "t", ".", "C", "o", "r", "e", "V", "1", "A", "p", "i", ".", "l", "i", "s", "t", "_", "p", "o", "d">>
PathGetApiApps == <<"k", "u", "b", "e", "r", "n", "e", "t", "e", "s", ".", "c", "l", "i", "e", "n", "t", ".", "A", "p", "p", "s", "V", "1", "A", "p", "i", ".", "g", "e", "t", "_", "a", "p", "i">>
PathGetApiCore == <<"k", "u", "b", "e", "r", "n", "e", "t", "e", "s", ".", "c", "l", "i", "e", "n", "t", ".", "C", "o", "r", "e", "V", "1", "A", "p", "i", ".", "g", "e", "t", "_", "a", "p", "i">>

\* The tool definitions a conversion run may hand to the generator: a tool
\* is named after its method, whatever its class.
ToolDefs ==
    { [name |-> <<"l", "i", "s", "t", "_", "p", "o", "d">>, method_path |-> PathListPod],
      [name |-> <<"g", "e", "t", "_", "a", "p", "i">>,  method_path |-> PathGetApiApps],
      [name |-> <<"g", "e", "t", "_", "a", "p", "i">>,  method_path |-> PathGetApiCore] }

\* Names a client may send that no tool definition carries.
UnlistedNames == {<<"n", "o", "_", "s", "u", "c", "h", "_", "t", "o", "o", "l">>}
CallNames == {t.name : t \in ToolDefs} \cup UnlistedNames

\* self.clients of the client wrapper: the name-keyed API clients.
Clients == {<<"C", "o", "r", "e", "V", "1", "A", "p", "i">>, <<"A", "p", "p", "s", "V", "1", "A", "p", "i">>, <<"N", "e", "t", "w", "o", "r", "k", "i", "n", "g", "V", "1", "A", "p", "i">>, <<"B", "a", "t", "c", "h", "V", "1", "A", "p", "i">>}

\* What the wrapped library does in one call: the client lacks the method
\* (getattr raises), the method raises, json.dumps cannot encode what it
\* returned, or the call returns an encodable value.
LibraryOutcomes == {"no_method", "raises", "unserialisable", "ok"}

\* _generate_server_code: the static tool list, one entry per definition,
\* and the dispatch branches, one `elif name == "<tool.name>":` per definition
\* holding the method template filled with the tool's method path.
GenerateToolList(tools) == [i \in 1..Len(tools) |-> tools[i].name]
GenerateBranches(tools) ==
    [i \in 1..Len(tools) |->
        [name |-> tools[i].name, method_path |-> tools[i].method_path]]

\* The branch `elif name == "<tool.name>":` that a call enters: the first
\* whose name equals the requested one, 0 for the final else.
Branch(tools, name) ==
    LET I == {i \in 1..Len(tools) : tools[i].name = name}
    IN  IF I = {} THEN 0 ELSE CHOOSE i \in I : \A j \in I : i <= j

\* client_class and method_name of the cluster-orchestration template.
ClientClass(method_path) ==
    LET path_parts == SplitAll(method_path, ".")
    IN  IF Len(path_parts) > 1 THEN path_parts[Len(path_parts) - 1]
        ELSE <<"C", "o", "r", "e", "V", "1", "A", "p", "i">>
MethodName(method_path) ==
    LET path_parts == SplitAll(method_path, ".")
    IN  path_parts[Len(path_parts)]

ErrorReply(msg) == [kind |-> "error", text |-> msg]
ResultReply(val) == [kind |-> "result", text |-> val]

\* The body of one dispatch branch: the reply it produces, or the failure
\* it raises, and whether it reached the wrapped library.
BranchBody(tool, arguments, env) ==
    LET client_class == ClientClass(tool.method_path)
        method_name  == MethodName(tool.method_path)
    IN  IF client_class \notin Clients
        THEN [raised |-> TRUE, invoked |-> FALSE,
              text |-> <<"U", "n", "k", "n", "o", "w", "n", " ", "c", "l", "i", "e", "n", "t", " ", "c", "l", "a", "s", "s", ":", " ">> \o client_class]
        ELSE IF env = "no_method"
        THEN [raised |-> TRUE, invoked |-> FALSE,
              text |-> <<"n", "o", " ", "a", "t", "t", "r", "i", "b", "u", "t", "e", " ">> \o method_name]
        ELSE IF env = "raises"
        THEN [raised |-> TRUE, invoked |-> TRUE,
              text |-> <<"l", "i", "b", "r", "a", "r", "y", " ", "e", "r", "r", "o", "r">>]
        ELSE IF env = "unserialisable"
        THEN [raised |-> TRUE, invoked |-> TRUE,
              text |-> <<"n", "o", "t", " ", "s", "e", "r", "i", "a", "l", "i", "z", "a", "b", "l", "e">>]
        ELSE [raised |-> FALSE, invoked |-> TRUE,
              text |-> client_class \o <<".">> \o method_name \o arguments]

\* handle_tool_call(name, arguments) in a loaded server: the replies sent,
\* the branch entered, whether the library was reached and whether a failure
\* left the handler.
HandleToolCall(tools, client, name, arguments, env) ==
    IF client # "set"
    THEN [replies |-> <<ErrorReply(<<"S", "D", "K", " ", "c", "l", "i", "e", "n", "t", " ", "n", "o", "t", " ", "i", "n", "i", "t", "i", "a", "l", "i", "z", "e", "d">>)>>,
          branch |-> 0, invoked |-> FALSE, escaped |-> FALSE]
    ELSE LET b == Branch(tools, name)
         IN  IF b = 0
             THEN [replies |-> <<ErrorReply(<<"U", "n", "k", "n", "o", "w", "n", " ", "t", "o", "o", "l", ":", " ">> \o name)>>,
                   branch |-> 0, invoked |-> FALSE, escaped |-> FALSE]
             ELSE LET r == BranchBody(tools[b], arguments, env)
                  IN  IF r.raised
                      THEN [replies |-> <<ErrorReply(r.text)>>,
                            branch |-> b, invoked |-> r.invoked, escaped |-> FALSE]
                      ELSE [replies |-> <<ResultReply(r.text)>>,
                            branch |-> b, invoked |-> r.invoked, escaped |-> FALSE]

\* A call to a process that is not serving: the client gets no reply.
NoReply == [replies |-> <<>>, branch |-> 0, invoked |-> FALSE, escaped |-> FALSE]

\* The generator has written the server source for a profile and a tool
\* list; the process that runs it is about to start, in an environment
\* where constructing the client would succeed or would fail.
ServerInit ==
    /\ profile \in Profiles
    /\ construction \in {"succeeds", "fails"}
    /\ process = "starting"
    /\ \E defs \in SeqUpTo(ToolDefs, MaxTools) :
          /\ TOOLS = GenerateToolList(defs)
          /\ branches = GenerateBranches(defs)
    /\ sdk_client = "unbound"
    /\ constructions = 0
    /\ libraryCalls = 0
    /\ escaped = FALSE
    /\ calls = <<>>

\* python <sdk>_mcp_server.py: the interpreter compiles the source; only a
\* source that compiles runs, and running it constructs the client once.
load_server ==
    /\ component = "server"
    /\ process = "starting"
    /\ IF Loads(generate_server_code(branches, sdk_config(profile)))
       THEN /\ process' = "serving"
            /\ sdk_client' = IF construction = "succeeds" THEN "set" ELSE "unset"
            /\ constructions' = constructions + 1
       ELSE /\ process' = "failed to load"
            /\ UNCHANGED <<sdk_client, constructions>>
    /\ UNCHANGED <<profile, construction, TOOLS, branches, libraryCalls, escaped,
                   calls, serverFrame>>

\* One tools/call request of a client, served to completion before the next
\* is read when the process serves; `env` is what the wrapped library would
\* do, recorded when the handler ran.
tool_call(name, arguments, env) ==
    LET serving == process = "serving"
        h == IF serving
             THEN HandleToolCall(branches, sdk_client, name, arguments, env)
             ELSE NoReply
    IN  /\ component = "server"
        /\ process # "starting"
        /\ Len(calls) < MaxCalls
        /\ ~escaped
        /\ calls' = Append(calls, [name |-> name, arguments |-> arguments,
                                   replies |-> h.replies, branch |-> h.branch,
                                   invoked |-> h.invoked, served |-> serving,
                                   env |-> IF serving THEN env ELSE "not reached"])
        /\ libraryCalls' = libraryCalls + (IF h.invoked THEN 1 ELSE 0)
        /\ escaped' = h.escaped
        /\ UNCHANGED <<profile, construction, process, TOOLS, branches, sdk_client,
                       constructions, serverFrame>>

ServerNext ==
    \/ load_server
    \/ \E name \in CallNames, env \in LibraryOutcomes : tool_call(name, <<"a", "1">>, env)

(***************************************************************************)
(* Text helpers                                                            *)
(***************************************************************************)
\* The lower-case form of the upper-case letters.
LowerMap ==
    ("A" :> "a") @@ ("B" :> "b") @@ ("C" :> "c") @@ ("D" :> "d") @@ ("E" :> "e") @@
    ("F" :> "f") @@ ("G" :> "g") @@ ("H" :> "h") @@ ("I" :> "i") @@ ("J" :> "j") @@
    ("K" :> "k") @@ ("L" :> "l") @@ ("M" :> "m") @@ ("N" :> "n") @@ ("O" :> "o") @@
    ("P" :> "p") @@ ("Q" :> "q") @@ ("R" :> "r") @@ ("S" :> "s") @@ ("T" :> "t") @@
    ("U" :> "u") @@ ("V" :> "v") @@ ("W" :> "w") @@ ("X" :> "x") @@ ("Y" :> "y") @@
    ("Z" :> "z")

\* str.lower()
Lower(s) == [i \in 1..Len(s) |-> IF s[i] \in DOMAIN LowerMap THEN LowerMap[s[i]] ELSE s[i]]

\* str.startswith(prefix)
StartsWith(s, prefix) ==
    /\ Len(prefix) <= Len(s)
    /\ SubSeq(s, 1, Len(prefix)) = prefix

\* `sub in s`
Contains(s, sub) ==
    \E i \in 0..(Len(s) - Len(sub)) : SubSeq(s, i + 1, i + Len(sub)) = sub

\* str.strip(): the text without its leading and trailing blanks.
RECURSIVE Strip(_)
Strip(s) ==
    IF s = <<>> THEN s
    ELSE IF Head(s) = " " THEN Strip(Tail(s))
    ELSE IF s[Len(s)] = " " THEN Strip(SubSeq(s, 1, Len(s) - 1))
    ELSE s

\* re.split(r"[._]", s)[-1]: the text after the last '.' or '_'.
LastToken(s) ==
    LET I == {i \in 1..Len(s) : s[i] \in {".", "_"}}
    IN  IF I = {} THEN s
        ELSE SubSeq(s, (CHOOSE i \in I : \A j \in I : j <= i) + 1, Len(s))

\* str.replace(old, new) for a one-character `old`.
Replace(s, old, new) == [i \in 1..Len(s) |-> IF s[i] = old THEN new ELSE s[i]]

(***************************************************************************)
(* REST mapper (src/converter/mapper.py) and its LLM client                *)
(* (src/converter/openai_client.py)                                        *)
(***************************************************************************)
MaxItems == 2       \* callables handed to map_many

\* VERB_TO_HTTP, in table order.
VERB_TO_HTTP ==
    << <<<<"g", "e", "t">>, <<"G", "E", "T">>>>, <<<<"l", "i", "s", "t">>, <<"G", "E", "T">>>>, <<<<"r", "e", "a", "d">>, <<"G", "E", "T">>>>,
       <<<<"c", "r", "e", "a", "t", "e">>, <<"P", "O", "S", "T">>>>, <<<<"p", "o", "s", "t">>, <<"P", "O", "S", "T">>>>,
       <<<<"d", "e", "l", "e", "t", "e">>, <<"D", "E", "L", "E", "T", "E">>>>, <<<<"r", "e", "m", "o", "v", "e">>, <<"D", "E", "L", "E", "T", "E">>>>,
       <<<<"u", "p", "d", "a", "t", "e">>, <<"P", "A", "T", "C", "H">>>>, <<<<"p", "a", "t", "c", "h">>, <<"P", "A", "T", "C", "H">>>>, <<<<"p", "u", "t">>, <<"P", "U", "T">>>> >>

infer_verb_from_name(name) ==
    LET I == {i \in 1..Len(VERB_TO_HTTP) :
                 StartsWith(Lower(name), VERB_TO_HTTP[i][1])}
    IN  IF I = {} THEN <<"P", "O", "S", "T">>
        ELSE VERB_TO_HTTP[CHOOSE i \in I : \A j \in I : i <= j][2]

simple_plural_AppendS(noun) == noun \o <<"s">>

simple_plural(noun) ==
    IF noun # <<>> /\ noun[Len(noun)] = "y"
    THEN SubSeq(noun, 1, Len(noun) - 1) \o <<"i", "e", "s">>
    ELSE noun \o <<"s">>

\* re.sub(r'^(get_|read_|create_|list_|delete_|update_)', '', s, flags=re.I)
VerbPrefixes ==
    <<<<"g", "e", "t", "_">>, <<"r", "e", "a", "d", "_">>, <<"c", "r", "e", "a", "t", "e", "_">>, <<"l", "i", "s", "t", "_">>, <<"d", "e", "l", "e", "t", "e", "_">>, <<"u", "p", "d", "a", "t", "e", "_">>>>
StripVerbPrefix(s) ==
    LET I == {i \in 1..Len(VerbPrefixes) : StartsWith(Lower(s), VerbPrefixes[i])}
    IN  IF I = {} THEN s
        ELSE SubSeq(s, Len(VerbPrefixes[CHOOSE i \in I : \A j \in I : i <= j]) + 1,
                    Len(s))

\* re.search(r"(name|id|namespace|owner|repo|resource)", pname, re.I)
IdLike(pname) ==
    \E k \in {<<"n", "a", "m", "e">>, <<"i", "d">>, <<"n", "a", "m", "e", "s", "p", "a", "c", "e">>, <<"o", "w", "n", "e", "r">>, <<"r", "e", "p", "o">>, <<"r", "e", "s", "o", "u", "r", "c", "e">>} :
        Contains(Lower(pname), k)

\* The parameter list and the path the loop over sig.parameters builds.
RECURSIVE MapParams(_, _, _)
MapParams(sigParams, params, path) ==
    IF sigParams = <<>> THEN [params |-> params, path |-> path]
    ELSE LET p == Head(sigParams)
         IN  IF p.name \in {<<"s", "e", "l", "f">>, <<"k", "w", "a", "r", "g", "s">>}
             THEN MapParams(Tail(sigParams), params, path)
             ELSE IF IdLike(p.name)
             THEN MapParams(Tail(sigParams),
                     Append(params, [name |-> p.name, in |-> "path", required |-> TRUE]),
                     path \o <<"/", "{">> \o p.name \o <<"}">>)
             ELSE MapParams(Tail(sigParams),
                     Append(params, [name |-> p.name, in |-> "query",
                                     required |-> ~p.hasDefault]),
                     path)

\* The heuristic operation map_callable builds before it consults the LLM.
HeuristicOp(item) ==
    LET qual     == item.qualname
        resource == StripVerbPrefix(LastToken(qual))
        mp       == MapParams(item.signature, <<>>, <<"/">> \o simple_plural(resource))
    IN  [operationId |-> Replace(qual, ".", "_"),
         http_method |-> infer_verb_from_name(qual),
         path        |-> mp.path,
         summary     |-> IF item.doc # <<>> THEN SplitAll(item.doc, "\n")[1] ELSE qual,
         params      |-> mp.params]

\* ask_llm(prompt): None without a credential or when the API call fails,
\* else the reply text.
LlmFailure == <<"<api failure>">>
ask_llm_IgnoresKey(OPENAI_KEY, outcome) ==
    IF outcome = LlmFailure THEN NoneVal ELSE outcome
ask_llm(OPENAI_KEY, outcome) ==
    IF ~OPENAI_KEY THEN NoneVal
    ELSE IF outcome = LlmFailure THEN NoneVal
    ELSE outcome

\* The number of ChatCompletion requests one ask_llm call sends: the
\* credential test returns before the request is built.
api_requests(OPENAI_KEY) == IF ~OPENAI_KEY THEN 0 ELSE 1

\* The loop over llm.splitlines(): each line may overwrite http_method and
\* path; a matching line without ':' raises (IndexError).
RECURSIVE ApplyLines(_, _)
ApplyLines(lines, op) ==
    IF lines = <<>> THEN [raised |-> FALSE, op |-> op]
    ELSE LET line   == Head(lines)
             isHttp == StartsWith(Lower(line), <<"h", "t", "t", "p", "_", "m", "e", "t", "h", "o", "d">>)
             isPath == StartsWith(Lower(line), <<"p", "a", "t", "h">>)
             parts  == SplitOnce(line, ":")
         IN  IF (isHttp \/ isPath) /\ Len(parts) < 2
             THEN [raised |-> TRUE, op |-> op]
             ELSE LET op1 == IF isHttp
                             THEN [op EXCEPT !.http_method = Strip(parts[2])]
                             ELSE op
                      op2 == IF isPath
                             THEN [op1 EXCEPT !.path = Strip(parts[2])]
                             ELSE op1
                  IN  ApplyLines(Tail(lines), op2)

\* map_callable(item, use_llm): the operation, or the failure it raises.
map_callable(item, use_llm, OPENAI_KEY, outcome) ==
    LET op == HeuristicOp(item)
    IN  IF ~use_llm THEN [raised |-> FALSE, op |-> op]
        ELSE LET llm == ask_llm(OPENAI_KEY, outcome)
             IN  IF ~Truthy(llm) THEN [raised |-> FALSE, op |-> op]
                 ELSE ApplyLines(SplitAll(llm, "\n"), op)

\* Mutant: no try/except around map_callable, the first failing item ends
\* the batch.
RECURSIVE map_many_NoExcept(_, _, _, _)
map_many_NoExcept(items, use_llm, OPENAI_KEY, outcomes) ==
    IF items = <<>> THEN <<>>
    ELSE LET r == map_callable(Head(items), use_llm, OPENAI_KEY, Head(outcomes))
         IN  IF r.raised THEN <<>>
             ELSE <<r.op>> \o map_many_NoExcept(Tail(items), use_llm, OPENAI_KEY,
                                                Tail(outcomes))

\* map_many(items, use_llm): the operations of the items that mapped.
RECURSIVE map_many(_, _, _, _)
map_many(items, use_llm, OPENAI_KEY, outcomes) ==
    IF items = <<>> THEN <<>>
    ELSE LET r == map_callable(Head(items), use_llm, OPENAI_KEY, Head(outcomes))
             rest == map_many(Tail(items), use_llm, OPENAI_KEY, Tail(outcomes))
         IN  IF r.raised THEN rest ELSE <<r.op>> \o rest

\* ---- the OpenAPI document (src/converter/oprnai_generator.py)

\* The method entry generate_openapi writes for one operation; the mapper
\* produces path and query parameters only, so there is no requestBody.
MethodEntry(op) ==
    [summary     |-> op.summary,
     operationId |-> op.operationId,
     parameters  |-> [i \in 1..Len(op.params) |->
                        [name |-> op.params[i].name, in |-> op.params[i].in,
                         required |-> op.params[i].required, type |-> "string"]]]

\* d[key] = value on a dict kept as a sequence of <<key, value>> pairs in
\* insertion order: the value of an existing key is replaced.
DictSet(d, key, value) ==
    IF \E i \in 1..Len(d) : d[i][1] = key
    THEN [i \in 1..Len(d) |-> IF d[i][1] = key THEN <<key, value>> ELSE d[i]]
    ELSE Append(d, <<key, value>>)

\* d.get(key, default)
DictGet(d, key, default) ==
    IF \E i \in 1..Len(d) : d[i][1] = key
    THEN d[CHOOSE i \in 1..Len(d) : d[i][1] = key][2]
    ELSE default

\* The loop of generate_openapi over the operations: setdefault on the
\* path, then path_obj[http_method.lower()] = entry.
RECURSIVE AddOperations(_, _)
AddOperations(operations, paths) ==
    IF operations = <<>> THEN paths
    ELSE LET op       == Head(operations)
             path_obj == DictGet(paths, op.path, <<>>)
         IN  AddOperations(Tail(operations),
                 DictSet(paths, op.path,
                         DictSet(path_obj, Lower(op.http_method), MethodEntry(op))))

generate_openapi(operations) ==
    [openapi |-> <<"3", ".", "0", ".", "0">>,
     info    |-> [title |-> <<"S", "D", "K", "-", "M", "C", "P">>, version |-> <<"0", ".", "1", ".", "0">>],
     paths   |-> AddOperations(operations, <<>>)]

NoDocument == [done |-> FALSE, doc |-> generate_openapi(<<>>)]

\* generate_openapi on the operations map_many returned.
run_generate_openapi ==
    /\ component = "mapper"
    /\ mapOut.done /\ ~openapi.done
    /\ openapi' = [done |-> TRUE, doc |-> generate_openapi(mapOut.ops)]
    /\ UNCHANGED <<mapIn, mapOut, mapperFrame>>

\* Callable descriptors the inspector hands to the mapper.
\* A parameter of a signature: its name, whether it declares a default, and
\* its kind; VarKeyword is a catch-all `**name`.
Param(name, hasDefault) ==
    [name |-> name, hasDefault |-> hasDefault, kind |-> "POSITIONAL_OR_KEYWORD"]
VarKeyword(name) ==
    [name |-> name, hasDefault |-> FALSE, kind |-> "VAR_KEYWORD"]
ItemReadPod ==
    [qualname  |-> <<"C", "o", "r", "e", "V", "1", "A", "p", "i", ".", "r", "e", "a", "d", "_", "n", "a", "m", "e", "s", "p", "a", "c", "e", "d", "_", "p", "o", "d">>,
     signature |-> <<Param(<<"s", "e", "l", "f">>, FALSE), Param(<<"n", "a", "m", "e">>, FALSE),
                     Param(<<"n", "a", "m", "e", "s", "p", "a", "c", "e">>, FALSE), VarKeyword(<<"k", "w", "a", "r", "g", "s">>)>>,
     doc       |-> <<"r", "e", "a", "d", " ", "t", "h", "e", " ", "s", "p", "e", "c", "i", "f", "i", "e", "d", " ", "P", "o", "d", "\n", "m", "o", "r", "e">>]
ItemListPod ==
    [qualname  |-> <<"l", "i", "s", "t", "_", "n", "a", "m", "e", "s", "p", "a", "c", "e", "d", "_", "p", "o", "d">>,
     signature |-> <<Param(<<"n", "a", "m", "e", "s", "p", "a", "c", "e">>, FALSE), Param(<<"l", "i", "m", "i", "t">>, TRUE)>>,
     doc       |-> <<>>]
ItemDeleteThing ==
    [qualname  |-> <<"d", "e", "l", "e", "t", "e", "T", "h", "i", "n", "g">>,
     signature |-> <<Param(<<"t", "h", "i", "n", "g", "_", "I", "D">>, TRUE), Param(<<"f", "o", "r", "c", "e">>, FALSE)>>,
     doc       |-> <<>>]
ItemFrobnicate ==
    [qualname  |-> <<"f", "r", "o", "b", "n", "i", "c", "a", "t", "e">>,
     signature |-> <<Param(<<"c", "a", "t", "e", "g", "o", "r", "y">>, FALSE)>>,
     doc       |-> <<"f", "r", "o", "b", "n", "i", "c", "a", "t", "e", " ", "i", "t">>]
ItemGetCategory ==
    [qualname  |-> <<"S", "h", "o", "p", ".", "g", "e", "t", "_", "c", "a", "t", "e", "g", "o", "r", "y">>,
     signature |-> <<Param(<<"s", "e", "l", "f">>, FALSE), Param(<<"c", "a", "t", "e", "g", "o", "r", "y", "_", "i", "d">>, TRUE),
                     VarKeyword(<<"o", "p", "t", "i", "o", "n", "s">>)>>,
     doc       |-> <<>>]
Items == {ItemReadPod, ItemListPod, ItemDeleteThing, ItemFrobnicate, ItemGetCategory}

\* What the chat API answers to one prompt: a reply text, or a failure.
ReplyBoth     == <<"h", "t", "t", "p", "_", "m", "e", "t", "h", "o", "d", ":", " ", "P", "U", "T", "\n", "p", "a", "t", "h", ":", " ", "/", "t", "h", "i", "n", "g", "s", " ">>
ReplyUnknown  == <<"H", "T", "T", "P", "_", "M", "E", "T", "H", "O", "D", ":", "F", "E", "T", "C", "H">>
ReplyNoColon  == <<"h", "t", "t", "p", "_", "m", "e", "t", "h", "o", "d", " ", "G", "E", "T">>
ReplyPathLike == <<"p", "a", "t", "h", "w", "a", "y", ":", " ", "/", "x">>
ReplyEmpty    == <<>>
LlmOutcomes ==
    {ReplyBoth, ReplyUnknown, ReplyNoColon, ReplyPathLike, ReplyEmpty, LlmFailure}

\* The runs of the mapper: the items, whether LLM help is requested, whether
\* OPENAI_API_KEY is set, and what the API would answer for each item.
OutcomesFor(its, u, k) ==
    IF u /\ k THEN [1..Len(its) -> LlmOutcomes]
    ELSE IF u THEN {[i \in 1..Len(its) |-> o] : o \in LlmOutcomes}
    ELSE {[i \in 1..Len(its) |-> LlmFailure]}
MapperInputs(longest) ==
    UNION { UNION { { [items |-> its, use_llm |-> uk[1], OPENAI_KEY |-> uk[2],
                       outcomes |-> outs] : outs \in OutcomesFor(its, uk[1], uk[2]) } :
                    uk \in BOOLEAN \X BOOLEAN } :
            its \in DistinctSeqUpTo(Items, longest) }

MapperInit ==
    /\ mapIn \in MapperInputs(MaxItems)
    /\ mapOut = [done |-> FALSE, ops |-> <<>>, requests |-> 0]
    /\ openapi = NoDocument

\* One run of map_many over the items.
run_map_many ==
    /\ component = "mapper"
    /\ ~mapOut.done
    /\ mapOut' = [done |-> TRUE,
                  ops  |-> map_many(mapIn.items, mapIn.use_llm, mapIn.OPENAI_KEY,
                                    mapIn.outcomes),
                  requests |-> IF mapIn.use_llm
                               THEN Len(mapIn.items) * api_requests(mapIn.OPENAI_KEY)
                               ELSE 0]
    /\ UNCHANGED <<mapIn, openapi, mapperFrame>>

MapperNext == run_map_many \/ run_generate_openapi

(***************************************************************************)
(* MCP tool pipelines: LLMAnalyzer of src/sdk2.py (skeleton tier, batch     *)
(* analysis by the LLM with deterministic fallback) and of src/sdk4.py      *)
(* (implementation tier, essential subset + deterministic schema)           *)
(***************************************************************************)
MaxMethods == 4     \* discovered methods handed to analyze_methods

max_methods_sdk2 == 100     \* sdk2.py: process at most 100 methods
batch_size       == 3       \* sdk2.py: methods per LLM request
max_methods_sdk4 == 15      \* sdk4.py: essential methods kept

\* A parameter of a signature: its name, annotation text (<<>> when absent)
\* and whether it declares a default.
SigParam(name, annotation, hasDefault) ==
    [name |-> name, annotation |-> annotation, hasDefault |-> hasDefault]

ClassPathCore == <<"k", "u", "b", "e", "r", "n", "e", "t", "e", "s", ".", "c", "l", "i", "e", "n", "t", ".", "C", "o", "r", "e", "V", "1", "A", "p", "i">>
ClassPathApps == <<"k", "u", "b", "e", "r", "n", "e", "t", "e", "s", ".", "c", "l", "i", "e", "n", "t", ".", "A", "p", "p", "s", "V", "1", "A", "p", "i">>
ModuleCore == <<"k", "u", "b", "e", "r", "n", "e", "t", "e", "s", ".", "c", "l", "i", "e", "n", "t", ".", "a", "p", "i", ".", "c", "o", "r", "e", "_", "v", "1", "_", "a", "p", "i">>
ModuleApps == <<"k", "u", "b", "e", "r", "n", "e", "t", "e", "s", ".", "c", "l", "i", "e", "n", "t", ".", "a", "p", "i", ".", "a", "p", "p", "s", "_", "v", "1", "_", "a", "p", "i">>

\* An SDKMethod as _explore_class records it (docstring <<>>: none).
SDKMethod(name, classPath, className, module, signature, docstring) ==
    [name |-> name, full_path |-> classPath \o <<".">> \o name,
     signature |-> signature, docstring |-> docstring,
     class_name |-> className, module_name |-> module]

\* Documentation texts of 60 and of 120 characters.
Doc60  == <<"c", "r", "e", "a", "t", "e", " ", "a", " ", "D", "e", "p", "l", "o", "y", "m", "e", "n", "t", ":", " ", "t", "h", "i", "s", " ", "m", "e", "t", "h", "o", "d", " ", "m", "a", "k", "e", "s", " ", "a", " ", "s", "y", "n", "c", "h", "r", "o", "n", "o", "u", "s", " ", "r", "e", "q", "u", "e", "s", "t">>
Doc120 == Doc60 \o <<" ", "b", "y", " ", "d", "e", "f", "a", "u", "l", "t", ";", " ", "t", "o", " ", "m", "a", "k", "e", " ", "a", "n", " ", "a", "s", "y", "n", "c", "h", "r", "o", "n", "o", "u", "s", " ", "H", "T", "T", "P", " ", "r", "e", "q", "u", "e", "s", "t", ",", " ", "p", "a", "s", "s", " ", "i", "t", " ", ".">>

NameListPod   == <<"l", "i", "s", "t", "_", "n", "a", "m", "e", "s", "p", "a", "c", "e", "d", "_", "p", "o", "d">>
NameGetApi    == <<"g", "e", "t", "_", "a", "p", "i", "_", "r", "e", "s", "o", "u", "r", "c", "e", "s">>
NameCreateDep == <<"c", "r", "e", "a", "t", "e", "_", "n", "a", "m", "e", "s", "p", "a", "c", "e", "d", "_", "d", "e", "p", "l", "o", "y", "m", "e", "n", "t">>

MethodListPod ==
    SDKMethod(NameListPod, ClassPathCore, <<"C", "o", "r", "e", "V", "1", "A", "p", "i">>, ModuleCore,
              <<SigParam(<<"s", "e", "l", "f">>, <<>>, FALSE),
                SigParam(<<"n", "a", "m", "e", "s", "p", "a", "c", "e">>, <<>>, FALSE),
                SigParam(<<"l", "i", "m", "i", "t">>, <<"O", "p", "t", "i", "o", "n", "a", "l", "[", "i", "n", "t", "]">>, TRUE),
                SigParam(<<"k", "w", "a", "r", "g", "s">>, <<>>, FALSE)>>,
              Doc120)
MethodGetApiCore ==
    SDKMethod(NameGetApi, ClassPathCore, <<"C", "o", "r", "e", "V", "1", "A", "p", "i">>, ModuleCore,
              <<SigParam(<<"s", "e", "l", "f">>, <<>>, FALSE), SigParam(<<"k", "w", "a", "r", "g", "s">>, <<>>, FALSE)>>,
              <<>>)
MethodGetApiApps ==
    SDKMethod(NameGetApi, ClassPathApps, <<"A", "p", "p", "s", "V", "1", "A", "p", "i">>, ModuleApps,
              <<SigParam(<<"s", "e", "l", "f">>, <<>>, FALSE), SigParam(<<"k", "w", "a", "r", "g", "s">>, <<>>, FALSE)>>,
              <<>>)
MethodCreateDep ==
    SDKMethod(NameCreateDep, ClassPathApps, <<"A", "p", "p", "s", "V", "1", "A", "p", "i">>, ModuleApps,
              <<SigParam(<<"s", "e", "l", "f">>, <<>>, FALSE),
                SigParam(<<"n", "a", "m", "e", "s", "p", "a", "c", "e">>, <<"s", "t", "r">>, FALSE),
                SigParam(<<"b", "o", "d", "y">>, <<"D", "i", "c", "t", "[", "s", "t", "r", "]">>, FALSE),
                SigParam(<<"d", "r", "y", "_", "r", "u", "n">>, <<"b", "o", "o", "l">>, TRUE)>>,
              Doc60)
Methods == {MethodListPod, MethodGetApiCore, MethodGetApiApps, MethodCreateDep}

\* ---- the usefulness filter of discovery

\* sdk2 / sdk4 SDKIntrospector._is_useful_method
skip_patterns ==
    {<<"t", "o", "_", "d", "i", "c", "t">>, <<"t", "o", "_", "s", "t", "r">>, <<"f", "r", "o", "m", "_", "d", "i", "c", "t">>, <<"a", "t", "t", "r", "i", "b", "u", "t", "e", "_", "m", "a", "p">>, <<"s", "w", "a", "g", "g", "e", "r", "_", "t", "y", "p", "e", "s">>,
     <<"d", "i", "s", "c", "r", "i", "m", "i", "n", "a", "t", "o", "r">>, <<"o", "p", "e", "n", "a", "p", "i", "_", "t", "y", "p", "e", "s">>, <<"m", "o", "d", "e", "l", "_", "c", "o", "n", "f", "i", "g">>, <<"v", "a", "l", "i", "d", "a", "t", "e">>,
     <<"s", "e", "r", "i", "a", "l", "i", "z", "e">>, <<"d", "e", "s", "e", "r", "i", "a", "l", "i", "z", "e">>, <<"_", "_", "s", "t", "r", "_", "_">>, <<"_", "_", "r", "e", "p", "r", "_", "_">>, <<"s", "e", "t", "_", "d", "e", "f", "a", "u", "l", "t">>}
high_priority_keywords ==
    {<<"c", "r", "e", "a", "t", "e">>, <<"d", "e", "l", "e", "t", "e">>, <<"u", "p", "d", "a", "t", "e">>, <<"l", "i", "s", "t">>, <<"g", "e", "t">>, <<"p", "a", "t", "c", "h">>, <<"r", "e", "p", "l", "a", "c", "e">>,
     <<"s", "c", "a", "l", "e">>, <<"d", "e", "p", "l", "o", "y">>, <<"a", "p", "p", "l", "y">>, <<"e", "x", "e", "c">>, <<"l", "o", "g", "s">>, <<"w", "a", "t", "c", "h">>}
k8s_operations ==
    {<<"n", "a", "m", "e", "s", "p", "a", "c", "e">>, <<"p", "o", "d">>, <<"s", "e", "r", "v", "i", "c", "e">>, <<"d", "e", "p", "l", "o", "y", "m", "e", "n", "t">>, <<"c", "o", "n", "f", "i", "g", "m", "a", "p">>,
     <<"s", "e", "c", "r", "e", "t">>, <<"n", "o", "d", "e">>, <<"i", "n", "g", "r", "e", "s", "s">>, <<"p", "e", "r", "s", "i", "s", "t", "e", "n", "t", "_", "v", "o", "l", "u", "m", "e">>}

is_useful_method(method) ==
    LET method_lower == Lower(method.name)
    IN  IF StartsWith(method.name, <<"_">>) THEN FALSE
        ELSE IF Len(method.signature) <= 1 THEN FALSE
        ELSE IF \E pattern \in skip_patterns : Contains(method_lower, pattern) THEN FALSE
        ELSE IF \E keyword \in high_priority_keywords : Contains(method_lower, keyword)
             THEN TRUE
        ELSE IF /\ Contains(Lower(method.module_name), <<"k", "u", "b", "e", "r", "n", "e", "t", "e", "s">>)
                /\ \E op \in k8s_operations : Contains(method_lower, op)
             THEN TRUE
        ELSE Len(method.docstring) > 100

\* _explore_class: the members of a class, in getmembers order, that the
\* filter lets through.
explore_class(members) == SelectSeq(members, is_useful_method)

\* Other members of the explored classes: a serialisation helper, a private
\* method, a validator named after an action, a static method of one
\* parameter, a property-like method, a method known by its resource only,
\* and two plain methods with long and with short documentation.
ModuleOther == <<"m", "y", "l", "i", "b", ".", "a", "p", "i">>
SelfOnly == <<SigParam(<<"s", "e", "l", "f">>, <<>>, FALSE)>>
SelfAnd(p) == <<SigParam(<<"s", "e", "l", "f">>, <<>>, FALSE), SigParam(p, <<>>, FALSE)>>
MemberToDict ==
    SDKMethod(<<"t", "o", "_", "d", "i", "c", "t">>, ClassPathCore, <<"C", "o", "r", "e", "V", "1", "A", "p", "i">>, ModuleCore, SelfAnd(<<"s", "e", "r", "i", "a", "l", "i", "z", "e">>), Doc120)
MemberPrivate ==
    SDKMethod(<<"_", "c", "r", "e", "a", "t", "e", "_", "p", "o", "d">>, ClassPathCore, <<"C", "o", "r", "e", "V", "1", "A", "p", "i">>, ModuleCore, SelfAnd(<<"b", "o", "d", "y">>), Doc120)
MemberValidateCreate ==
    SDKMethod(<<"v", "a", "l", "i", "d", "a", "t", "e", "_", "c", "r", "e", "a", "t", "e">>, ClassPathCore, <<"C", "o", "r", "e", "V", "1", "A", "p", "i">>, ModuleCore, SelfAnd(<<"b", "o", "d", "y">>), Doc120)
MemberStaticGet ==
    SDKMethod(<<"g", "e", "t", "_", "i", "t", "e", "m">>, <<"m", "y", "l", "i", "b", ".", "a", "p", "i", ".", "S", "t", "o", "r", "e">>, <<"S", "t", "o", "r", "e">>, ModuleOther,
              <<SigParam(<<"k", "e", "y">>, <<>>, FALSE)>>, <<>>)
MemberNoParams ==
    SDKMethod(<<"g", "e", "t", "_", "v", "e", "r", "s", "i", "o", "n">>, ClassPathCore, <<"C", "o", "r", "e", "V", "1", "A", "p", "i">>, ModuleCore, SelfOnly, Doc120)
MemberConnectPod ==
    SDKMethod(<<"c", "o", "n", "n", "e", "c", "t", "_", "p", "o", "d", "_", "p", "r", "o", "x", "y">>, ClassPathCore, <<"C", "o", "r", "e", "V", "1", "A", "p", "i">>, ModuleCore, SelfAnd(<<"n", "a", "m", "e">>), <<>>)
MemberConnectOther ==
    SDKMethod(<<"c", "o", "n", "n", "e", "c", "t", "_", "p", "o", "d", "_", "p", "r", "o", "x", "y">>, <<"m", "y", "l", "i", "b", ".", "a", "p", "i", ".", "S", "t", "o", "r", "e">>, <<"S", "t", "o", "r", "e">>, ModuleOther, SelfAnd(<<"n", "a", "m", "e">>), <<>>)
MemberLongDoc ==
    SDKMethod(<<"f", "r", "o", "b", "n", "i", "c", "a", "t", "e">>, <<"m", "y", "l", "i", "b", ".", "a", "p", "i", ".", "S", "t", "o", "r", "e">>, <<"S", "t", "o", "r", "e">>, ModuleOther, SelfAnd(<<"x">>), Doc120)
MemberShortDoc ==
    SDKMethod(<<"f", "r", "o", "b", "n", "i", "c", "a", "t", "e">>, <<"m", "y", "l", "i", "b", ".", "a", "p", "i", ".", "S", "t", "o", "r", "e">>, <<"S", "t", "o", "r", "e">>, ModuleOther, SelfAnd(<<"x">>), Doc60)
MemberCreatePod ==
    SDKMethod(<<"c", "r", "e", "a", "t", "e", "_", "n", "a", "m", "e", "s", "p", "a", "c", "e", "d", "_", "p", "o", "d">>, ClassPathCore, <<"C", "o", "r", "e", "V", "1", "A", "p", "i">>, ModuleCore,
              <<SigParam(<<"s", "e", "l", "f">>, <<>>, FALSE), SigParam(<<"n", "a", "m", "e", "s", "p", "a", "c", "e">>, <<>>, FALSE),
                SigParam(<<"b", "o", "d", "y">>, <<>>, FALSE), SigParam(<<"k", "w", "a", "r", "g", "s">>, <<>>, FALSE)>>,
              Doc120 \o <<" ", "c", "r", "e", "a", "t", "e", " ", "a", " ", "P", "o", "d", " ", "i", "n", " ", "t", "h", "e", " ", "n", "a", "m", "e", "s", "p", "a", "c", "e">>)
Members ==
    Methods \cup {MemberCreatePod, MemberToDict, MemberPrivate, MemberValidateCreate, MemberStaticGet,
                  MemberNoParams, MemberConnectPod, MemberConnectOther, MemberLongDoc,
                  MemberShortDoc}

\* The first annotation keyword of `table` (pairs keyword, JSON type) that
\* the lower-cased annotation text contains; "string" when none does or
\* when the parameter has no annotation.
InferType(annotation, table) ==
    LET I == {i \in 1..Len(table) : Contains(Lower(annotation), table[i][1])}
    IN  IF annotation = <<>> \/ I = {} THEN "string"
        ELSE table[CHOOSE i \in I : \A j \in I : i <= j][2]

TypeTableSdk4 ==
    << <<<<"i", "n", "t">>, "integer">>, <<<<"b", "o", "o", "l">>, "boolean">>, <<<<"l", "i", "s", "t">>, "array">>,
       <<<<"d", "i", "c", "t">>, "object">>, <<<<"f", "l", "o", "a", "t">>, "number">> >>
TypeTableSdk2 ==
    << <<<<"i", "n", "t">>, "number">>, <<<<"b", "o", "o", "l">>, "boolean">>, <<<<"l", "i", "s", "t">>, "array">>,
       <<<<"d", "i", "c", "t">>, "object">> >>

\* The loop over method.signature.parameters that fills "properties" and
\* "required": `self` is skipped, every other parameter becomes a property,
\* and a parameter without default is also required.
RECURSIVE BuildSchema(_, _, _)
BuildSchema(sigParams, table, schema) ==
    IF sigParams = <<>> THEN schema
    ELSE LET p == Head(sigParams)
         IN  IF p.name = <<"s", "e", "l", "f">> THEN BuildSchema(Tail(sigParams), table, schema)
             ELSE BuildSchema(Tail(sigParams), table,
                    [schema EXCEPT
                       !.properties = Append(schema.properties,
                                        [name |-> p.name,
                                         type |-> InferType(p.annotation, table)]),
                       !.required   = IF p.hasDefault THEN schema.required
                                      ELSE Append(schema.required, p.name)])

\* A parameters object: whether it has the keys "properties" and "required",
\* the properties in insertion order and the required names.
Schema(hasProperties, properties, hasRequired, required) ==
    [hasProperties |-> hasProperties, properties |-> properties,
     hasRequired |-> hasRequired, required |-> required]

\* {"type": "object", "properties": {}, "required": []}
EmptySchema == Schema(TRUE, <<>>, TRUE, <<>>)

\* {}
NoSchema == Schema(FALSE, <<>>, FALSE, <<>>)

\* sdk4 LLMAnalyzer._generate_parameter_schema
generate_parameter_schema(method) ==
    BuildSchema(method.signature, TypeTableSdk4, EmptySchema)

\* sdk4 LLMAnalyzer._categorize_method
categorize_method(method) ==
    LET name_lower == Lower(method.name)
        AnyOf(keywords) == \E k \in keywords : Contains(name_lower, k)
    IN  IF AnyOf({<<"c", "r", "e", "a", "t", "e">>, <<"p", "o", "s", "t">>}) THEN "create"
        ELSE IF AnyOf({<<"l", "i", "s", "t">>, <<"g", "e", "t">>, <<"r", "e", "a", "d">>, <<"f", "e", "t", "c", "h">>}) THEN "read"
        ELSE IF AnyOf({<<"u", "p", "d", "a", "t", "e">>, <<"p", "a", "t", "c", "h">>, <<"p", "u", "t">>, <<"e", "d", "i", "t">>}) THEN "update"
        ELSE IF AnyOf({<<"d", "e", "l", "e", "t", "e">>, <<"r", "e", "m", "o", "v", "e">>}) THEN "delete"
        ELSE "other"

\* The description of a tool: the documentation, or a placeholder, cut to
\* 200 characters plus "..." when longer.
Description(method) ==
    LET description == IF method.docstring # <<>> THEN method.docstring
                       ELSE <<"E", "x", "e", "c", "u", "t", "e", " ">> \o method.name \o <<" ", "m", "e", "t", "h", "o", "d">>
    IN  IF Len(description) > 200 THEN SubSeq(description, 1, 200) \o <<".", ".", ".">>
        ELSE description

\* sdk4 LLMAnalyzer._create_tool_with_implementation
create_tool_with_implementation(method) ==
    [name        |-> method.name,
     description |-> Description(method),
     parameters  |-> generate_parameter_schema(method),
     method_path |-> method.full_path,
     category    |-> categorize_method(method)]

\* essential_patterns of sdk4 _select_essential_methods.
EssentialKubernetes ==
    { <<"l", "i", "s", "t", "_", "p", "o", "d">>, <<"c", "r", "e", "a", "t", "e", "_", "n", "a", "m", "e", "s", "p", "a", "c", "e", "d", "_", "p", "o", "d">>,
      <<"d", "e", "l", "e", "t", "e", "_", "n", "a", "m", "e", "s", "p", "a", "c", "e", "d", "_", "p", "o", "d">>, <<"l", "i", "s", "t", "_", "d", "e", "p", "l", "o", "y", "m", "e", "n", "t">>,
      <<"c", "r", "e", "a", "t", "e", "_", "n", "a", "m", "e", "s", "p", "a", "c", "e", "d", "_", "d", "e", "p", "l", "o", "y", "m", "e", "n", "t">>,
      <<"p", "a", "t", "c", "h", "_", "n", "a", "m", "e", "s", "p", "a", "c", "e", "d", "_", "d", "e", "p", "l", "o", "y", "m", "e", "n", "t", "_", "s", "c", "a", "l", "e">>,
      <<"l", "i", "s", "t", "_", "s", "e", "r", "v", "i", "c", "e">>, <<"c", "r", "e", "a", "t", "e", "_", "n", "a", "m", "e", "s", "p", "a", "c", "e", "d", "_", "s", "e", "r", "v", "i", "c", "e">>,
      <<"d", "e", "l", "e", "t", "e", "_", "n", "a", "m", "e", "s", "p", "a", "c", "e", "d", "_", "s", "e", "r", "v", "i", "c", "e">>, <<"l", "i", "s", "t", "_", "n", "a", "m", "e", "s", "p", "a", "c", "e">>,
      <<"c", "r", "e", "a", "t", "e", "_", "n", "a", "m", "e", "s", "p", "a", "c", "e">>, <<"d", "e", "l", "e", "t", "e", "_", "n", "a", "m", "e", "s", "p", "a", "c", "e">>,
      <<"l", "i", "s", "t", "_", "c", "o", "n", "f", "i", "g", "m", "a", "p">>,
      <<"c", "r", "e", "a", "t", "e", "_", "n", "a", "m", "e", "s", "p", "a", "c", "e", "d", "_", "c", "o", "n", "f", "i", "g", "_", "m", "a", "p">> }
EssentialGithub ==
    { <<"g", "e", "t", "_", "u", "s", "e", "r">>, <<"g", "e", "t", "_", "r", "e", "p", "o">>, <<"c", "r", "e", "a", "t", "e", "_", "r", "e", "p", "o">>,
      <<"g", "e", "t", "_", "i", "s", "s", "u", "e", "s">>, <<"c", "r", "e", "a", "t", "e", "_", "i", "s", "s", "u", "e">>, <<"c", "r", "e", "a", "t", "e", "_", "p", "u", "l", "l">>,
      <<"g", "e", "t", "_", "p", "u", "l", "l", "s">>, <<"m", "e", "r", "g", "e">>, <<"g", "e", "t", "_", "c", "o", "n", "t", "e", "n", "t", "s">> }
EssentialAzure ==
    { <<"l", "i", "s", "t">>, <<"g", "e", "t">>, <<"c", "r", "e", "a", "t", "e", "_", "o", "r", "_", "u", "p", "d", "a", "t", "e">>, <<"d", "e", "l", "e", "t", "e">>,
      <<"s", "t", "a", "r", "t">>, <<"r", "e", "s", "t", "a", "r", "t">>, <<"d", "e", "a", "l", "l", "o", "c", "a", "t", "e">> }
EssentialDefault ==
    { <<"c", "r", "e", "a", "t", "e">>, <<"g", "e", "t">>, <<"l", "i", "s", "t">>, <<"u", "p", "d", "a", "t", "e">>, <<"d", "e", "l", "e", "t", "e">> }

EssentialPatterns(module_name) ==
    IF Contains(Lower(module_name), <<"k", "u", "b", "e", "r", "n", "e", "t", "e", "s">>) THEN EssentialKubernetes
    ELSE IF Contains(Lower(module_name), <<"g", "i", "t", "h", "u", "b">>) THEN EssentialGithub
    ELSE IF Contains(Lower(module_name), <<"a", "z", "u", "r", "e">>) THEN EssentialAzure
    ELSE EssentialDefault

\* The score _select_essential_methods gives a method.
EssentialScore(method, patterns) ==
    (IF \E pt \in patterns : Contains(Lower(method.name), pt) THEN 10 ELSE 0)
    + (IF method.docstring # <<>> /\ Len(method.docstring) > 50 THEN 2 ELSE 0)
    - (IF Len(method.name) > 40 THEN 5 ELSE 0)

\* The subsequence of s whose elements satisfy Keep.
Filter(s, Keep(_)) ==
    LET I == {i \in 1..Len(s) : Keep(s[i])}
    IN  [r \in 1..Cardinality(I) |->
            s[CHOOSE i \in I : Cardinality({j \in I : j < i}) = r - 1]]

\* list.sort(reverse=True, key=Score): descending by score, elements of
\* equal score in their original order.
SortDescending(s, Score(_)) ==
    LET score == [i \in 1..Len(s) |-> Score(s[i])] \o <<>>
        rank  == [i \in 1..Len(s) |->
                    Cardinality({j \in 1..Len(s) :
                        \/ score[j] > score[i]
                        \/ (score[j] = score[i] /\ j < i)}) + 1] \o <<>>
    IN  [r \in 1..Len(s) |-> s[CHOOSE i \in 1..Len(s) : rank[i] = r]]

\* s[:n]
Take(s, n) == SubSeq(s, 1, IF Len(s) < n THEN Len(s) ELSE n)

\* Mutant: the selection keeps the methods whose score is not positive.
select_essential_methods_KeepAll(methods, limit) ==
    LET patterns == EssentialPatterns(methods[1].module_name)
        Score(m) == EssentialScore(m, patterns)
    IN  Take(SortDescending(methods, Score), limit)

\* sdk4 LLMAnalyzer._select_essential_methods
select_essential_methods(methods, limit) ==
    LET patterns == EssentialPatterns(methods[1].module_name)
        Score(m) == EssentialScore(m, patterns)
        Positive(m) == Score(m) > 0
    IN  Take(SortDescending(Filter(methods, Positive), Score), limit)

\* sdk4 LLMAnalyzer.analyze_methods
analyze_methods_sdk4(methods) ==
    LET kept == IF Len(methods) > max_methods_sdk4
                THEN select_essential_methods(methods, max_methods_sdk4)
                ELSE methods
    IN  [i \in 1..Len(kept) |-> create_tool_with_implementation(kept[i])]

\* ---- src/sdk2.py

\* method_score of sdk2 LLMAnalyzer._prioritize_methods
method_score(method) ==
    LET method_lower == Lower(method.name)
        AnyOf(keywords) == \E k \in keywords : Contains(method_lower, k)
    IN  (IF AnyOf({<<"c", "r", "e", "a", "t", "e">>, <<"d", "e", "l", "e", "t", "e">>, <<"l", "i", "s", "t">>, <<"g", "e", "t">>, <<"u", "p", "d", "a", "t", "e">>, <<"p", "a", "t", "c", "h">>})
         THEN 10 ELSE 0)
        + (IF AnyOf({<<"s", "c", "a", "l", "e">>, <<"d", "e", "p", "l", "o", "y">>, <<"a", "p", "p", "l", "y">>, <<"e", "x", "e", "c">>, <<"l", "o", "g", "s">>}) THEN 5 ELSE 0)
        + (IF AnyOf({<<"p", "o", "d">>, <<"s", "e", "r", "v", "i", "c", "e">>, <<"d", "e", "p", "l", "o", "y", "m", "e", "n", "t">>, <<"n", "a", "m", "e", "s", "p", "a", "c", "e">>}) THEN 3 ELSE 0)
        + (IF method.docstring # <<>> /\ Len(method.docstring) > 100 THEN 2 ELSE 0)
        - (IF Len(method.name) > 50 THEN 2 ELSE 0)

\* sdk2 LLMAnalyzer._prioritize_methods
prioritize_methods(methods) == SortDescending(methods, method_score)

\* _fallback_conversion that leaves the parameter loop out.
FallbackTool_NoParameterLoop(method) ==
    [name        |-> method.name,
     description |-> IF method.docstring # <<>> THEN method.docstring
                     ELSE <<"E", "x", "e", "c", "u", "t", "e", " ">> \o method.name \o <<" ", "m", "e", "t", "h", "o", "d">>,
     parameters  |-> EmptySchema,
     method_path |-> method.full_path,
     category    |-> "general"]

\* The tool _fallback_conversion builds for one method.
FallbackTool(method) ==
    [name        |-> method.name,
     description |-> IF method.docstring # <<>> THEN method.docstring
                     ELSE <<"E", "x", "e", "c", "u", "t", "e", " ">> \o method.name \o <<" ", "m", "e", "t", "h", "o", "d">>,
     parameters  |-> BuildSchema(method.signature, TypeTableSdk2, EmptySchema),
     method_path |-> method.full_path,
     category    |-> "general"]

\* sdk2 LLMAnalyzer._fallback_conversion
fallback_conversion(methods) == [i \in 1..Len(methods) |-> FallbackTool(methods[i])]

\* An element of the array the LLM returns: a JSON object that has the keys
\* `keys` among name, description, category, parameters (a field outside
\* `keys` is not read), or a value that is no object (isDict FALSE).
JsonObject(keys, name, description, category, parameters) ==
    [isDict |-> TRUE, keys |-> keys, name |-> name, description |-> description,
     category |-> category, parameters |-> parameters]
JsonNumber ==
    [isDict |-> FALSE, keys |-> {}, name |-> <<>>, description |-> <<>>,
     category |-> "", parameters |-> NoSchema]

\* The objects the replies of the model hold, each written as one letter in
\* the reply text.
JsonValues ==
    ("G" :> JsonObject({"name", "description", "category", "parameters"},
                       <<"l", "i", "s", "t", "_", "p", "o", "d", "s">>, <<"L", "i", "s", "t", " ", "p", "o", "d", "s">>, "read",
                       Schema(TRUE, <<[name |-> <<"n", "a", "m", "e", "s", "p", "a", "c", "e">>, type |-> "string"]>>,
                              TRUE, <<<<"n", "a", "m", "e", "s", "p", "a", "c", "e">>>>)))
    @@ ("H" :> JsonObject({"name", "parameters"},
                          <<"l", "i", "s", "t", "_", "p", "o", "d", "s">>, <<>>, "",
                          Schema(TRUE, <<>>, TRUE, <<<<"g", "h", "o", "s", "t">>>>)))
    @@ ("B" :> JsonObject({}, <<>>, <<>>, "", NoSchema))
    @@ ("7" :> JsonNumber)

\* json.loads on the text between the brackets: the array of the values
\* the text lists, or invalid for any other text.
json_loads(text) ==
    IF Len(text) >= 2 /\ text[1] = "[" /\ text[Len(text)] = "]"
    THEN LET inner == SubSeq(text, 2, Len(text) - 1)
             items == IF inner = <<>> THEN <<>> ELSE SplitAll(inner, ",")
         IN  IF \A i \in 1..Len(items) :
                    Len(items[i]) = 1 /\ items[i][1] \in DOMAIN JsonValues
             THEN [valid |-> TRUE,
                   value |-> [i \in 1..Len(items) |-> JsonValues[items[i][1]]]]
             ELSE [valid |-> FALSE, value |-> <<>>]
    ELSE [valid |-> FALSE, value |-> <<>>]

\* str.find(c) and str.rfind(c), as 0-based indexes, -1 when absent.
Find(s, c) ==
    LET I == {i \in 1..Len(s) : s[i] = c}
    IN  IF I = {} THEN -1 ELSE (CHOOSE i \in I : \A j \in I : i <= j) - 1
RFind(s, c) ==
    LET I == {i \in 1..Len(s) : s[i] = c}
    IN  IF I = {} THEN -1 ELSE (CHOOSE i \in I : \A j \in I : j <= i) - 1

\* s[start:end] for 0-based start, end >= 0.
Slice(s, start, end) ==
    LET e == IF end > Len(s) THEN Len(s) ELSE end
    IN  IF start >= e THEN <<>> ELSE SubSeq(s, start + 1, e)

\* tool_data.get(key, default)
GetOr(tool_data, key, default) ==
    IF key \in tool_data.keys THEN tool_data[key] ELSE default

\* The tool _parse_llm_response builds from element tool_data for `method`.
ParsedTool(tool_data, method) ==
    [name        |-> GetOr(tool_data, "name", method.name),
     description |-> GetOr(tool_data, "description", <<"N", "o", " ", "d", "e", "s", "c", "r", "i", "p", "t", "i", "o", "n">>),
     parameters  |-> GetOr(tool_data, "parameters", NoSchema),
     method_path |-> method.full_path,
     category    |-> GetOr(tool_data, "category", "general")]

\* sdk2 LLMAnalyzer._parse_llm_response
parse_llm_response(response, original_methods) ==
    LET start_idx == Find(response, "[")
        end_idx   == RFind(response, "]") + 1
    IN  IF start_idx = -1 \/ end_idx = 0
        THEN fallback_conversion(original_methods)
        ELSE LET parsed == json_loads(Slice(response, start_idx, end_idx))
             IN  IF ~parsed.valid
                 THEN fallback_conversion(original_methods)
                 ELSE LET tools_data == parsed.value
                          used == IF Len(tools_data) < Len(original_methods)
                                  THEN Len(tools_data) ELSE Len(original_methods)
                      IN  IF \E i \in 1..used : ~tools_data[i].isDict
                          THEN fallback_conversion(original_methods)
                          ELSE [i \in 1..used |->
                                   ParsedTool(tools_data[i], original_methods[i])]

\* What the chat API does with one batch request: it fails, or it replies.
ApiError == <<"<api error>">>

\* sdk2 LLMAnalyzer._analyze_batch
analyze_batch(methods, outcome) ==
    IF outcome = ApiError THEN fallback_conversion(methods)
    ELSE parse_llm_response(outcome, methods)

\* The number of batches of batch_size that n methods make.
BatchCount(n) == (n + batch_size - 1) \div batch_size

\* sdk2 LLMAnalyzer.analyze_methods
RECURSIVE AnalyzeBatches(_, _, _)
AnalyzeBatches(methods, outcomes, k) ==
    IF (k - 1) * batch_size >= Len(methods) THEN <<>>
    ELSE LET batch == Slice(methods, (k - 1) * batch_size, k * batch_size)
         IN  analyze_batch(batch, outcomes[k]) \o AnalyzeBatches(methods, outcomes, k + 1)

analyze_methods_sdk2(methods, outcomes) ==
    LET kept == IF Len(methods) > max_methods_sdk2
                THEN Take(prioritize_methods(methods), max_methods_sdk2)
                ELSE methods
    IN  AnalyzeBatches(kept, outcomes, 1)

\* ---- one run of a pipeline's analyze_methods

\* The decimal digits of a natural number, as text.
RECURSIVE Digits(_)
Digits(n) ==
    LET d == <<"0", "1", "2", "3", "4", "5", "6", "7", "8", "9">>
    IN  IF n < 10 THEN <<d[n + 1]>> ELSE Digits(n \div 10) \o <<d[(n % 10) + 1]>>

\* The i-th method of a large discovered list: three families of names on
\* one class, every name distinct and every method one the usefulness
\* filter lets through.
NumberedMethod(i) ==
    SDKMethod((CASE i % 3 = 1 -> <<"l", "i", "s", "t", "_", "p", "o", "d", "_">>
                 [] i % 3 = 2 -> <<"g", "e", "t", "_", "t", "h", "i", "n", "g", "_">>
                 [] OTHER     -> <<"w", "a", "t", "c", "h", "_">>) \o Digits(i),
              ClassPathCore, <<"C", "o", "r", "e", "V", "1", "A", "p", "i">>, ModuleCore,
              <<SigParam(<<"s", "e", "l", "f">>, <<>>, FALSE), SigParam(<<"n", "a", "m", "e">>, <<"s", "t", "r">>, FALSE)>>,
              <<>>)
NumberedMethods(n) == [i \in 1..n |-> NumberedMethod(i)]

\* The i-th method of a large list whose methods differ in score: the same
\* name families, documentation on every second method and a name of more
\* than 40 characters on every fifth.
ScoredMethod(i) ==
    SDKMethod((CASE i % 3 = 1 -> <<"l", "i", "s", "t", "_", "p", "o", "d", "_">>
                 [] i % 3 = 2 -> <<"g", "e", "t", "_", "t", "h", "i", "n", "g", "_">>
                 [] OTHER     -> <<"w", "a", "t", "c", "h", "_">>) \o Digits(i)
              \o (IF i % 5 = 0 THEN <<"_", "w", "i", "t", "h", "_", "h", "t", "t", "p", "_", "i", "n", "f", "o", "_", "a", "n", "d", "_", "p", "r", "e", "l", "o", "a", "d", "_", "c", "o", "n", "t", "e", "n", "t", "_", "f", "l", "a", "g">>
                  ELSE <<>>),
              ClassPathCore, <<"C", "o", "r", "e", "V", "1", "A", "p", "i">>, ModuleCore,
              <<SigParam(<<"s", "e", "l", "f">>, <<>>, FALSE), SigParam(<<"n", "a", "m", "e">>, <<"s", "t", "r">>, FALSE)>>,
              IF i % 2 = 0 THEN Doc60 ELSE <<>>)
ScoredMethods(n) == [i \in 1..n |-> ScoredMethod(i)]

\* What the chat API may do with a batch request.
ReplyThree      == <<"H", "e", "r", "e", " ", "a", "r", "e", " ", "t", "h", "e", " ", "t", "o", "o", "l", "s", ":", " ", "[", "G", ",", "H", ",", "B", "]", " ", "a", "s", " ", "r", "e", "q", "u", "e", "s", "t", "e", "d">>
ReplyShort      == <<"[", "H", "]">>
ReplyLong       == <<"[", "B", ",", "B", ",", "B", ",", "B", "]">>
ReplyNonDict    == <<"[", "G", ",", "7", "]">>
ReplyNoArray    == <<"I", " ", "c", "a", "n", "n", "o", "t", " ", "h", "e", "l", "p", " ", "w", "i", "t", "h", " ", "t", "h", "a", "t">>
ReplyReversed   == <<"]", " ", "t", "h", "e", "n", " ", "[">>
ReplyTwoArrays  == <<"[", "G", "]", " ", "a", "n", "d", " ", "[", "H", "]">>
BatchOutcomes ==
    {ApiError, ReplyThree, ReplyShort, ReplyLong, ReplyNonDict, ReplyNoArray,
     ReplyReversed, ReplyTwoArrays}

\* The lengths of the large discovered lists: at and just above each cap.
LargeSizesSdk2 == {max_methods_sdk2, max_methods_sdk2 + 1}
LargeSizesSdk4 == {max_methods_sdk4, max_methods_sdk4 + 1, 2 * max_methods_sdk4}

\* One run: the pipeline, how it is entered (the command line's main, or
\* analyze_methods called on an analyzer), the discovered methods, whether
\* an API key is configured, and what the chat API does with each batch.
ToolInput(pipeline, entry, methods, credential, outcomes) ==
    [pipeline |-> pipeline, entry |-> entry, methods |-> methods,
     credential |-> credential, outcomes |-> outcomes]

\* Without a credential every batch request fails; with one each request
\* fails or is answered.  sdk4 makes no request.
ToolInputs(longest) ==
    LET small == DistinctSeqUpTo(Methods, longest)
        AllFail(n) == [k \in 1..BatchCount(n) |-> ApiError]
        Entries == {"main", "analyzer"}
    IN  {ToolInput("sdk4", "analyzer", m, c, <<>>) : m \in small, c \in BOOLEAN}
        \cup {ToolInput("sdk4", "analyzer", NumberedMethods(n), FALSE, <<>>) :
                 n \in LargeSizesSdk4}
        \cup {ToolInput("sdk4", "analyzer", ScoredMethods(n), FALSE, <<>>) :
                 n \in LargeSizesSdk4}
        \cup {ToolInput("sdk2", e, m, FALSE, AllFail(Len(m))) : e \in Entries, m \in small}
        \cup UNION {{ToolInput("sdk2", e, m, TRUE, o) :
                        e \in Entries, o \in [1..BatchCount(Len(m)) -> BatchOutcomes]} :
                    m \in small}
        \cup {ToolInput("sdk2", "analyzer", NumberedMethods(n), FALSE, AllFail(n)) :
                 n \in LargeSizesSdk2}

\* The outcome of a run: whether it has ended, how ("returned" for a call of
\* analyze_methods, "exit 0" or "exit 1" for main), whether analyze_methods
\* ran, and the tools it returned.
RunOutcome(done, status, analyzed, tools) ==
    [done |-> done, status |-> status, analyzed |-> analyzed, tools |-> tools]
NotRun == RunOutcome(FALSE, "running", FALSE, <<>>)

\* sdk2 main with SDKToMCPConverter.convert: without an API key the process
\* exits with code 1 before an analyzer exists; with one, an empty discovery
\* raises (exit 1) and otherwise the methods are analyzed and the server is
\* generated.
main_sdk2_outcome(methods, credential, outcomes) ==
    IF ~credential THEN RunOutcome(TRUE, "exit 1", FALSE, <<>>)
    ELSE IF methods = <<>> THEN RunOutcome(TRUE, "exit 1", FALSE, <<>>)
    ELSE RunOutcome(TRUE, "exit 0", TRUE, analyze_methods_sdk2(methods, outcomes))

ToolsInit ==
    /\ toolIn \in ToolInputs(MaxMethods)
    /\ toolOut = NotRun

\* sdk2 LLMAnalyzer.analyze_methods on the discovered methods.
run_analyze_sdk2 ==
    /\ component = "tools"
    /\ toolIn.pipeline = "sdk2" /\ toolIn.entry = "analyzer"
    /\ ~toolOut.done
    /\ toolOut' = RunOutcome(TRUE, "returned", TRUE,
                             analyze_methods_sdk2(toolIn.methods, toolIn.outcomes))
    /\ UNCHANGED <<toolIn, toolFrame>>

\* sdk2 main: one run of the command line.
main_sdk2 ==
    /\ component = "tools"
    /\ toolIn.pipeline = "sdk2" /\ toolIn.entry = "main"
    /\ ~toolOut.done
    /\ toolOut' = main_sdk2_outcome(toolIn.methods, toolIn.credential, toolIn.outcomes)
    /\ UNCHANGED <<toolIn, toolFrame>>

\* sdk4 LLMAnalyzer.analyze_methods on the discovered methods.
run_analyze_sdk4 ==
    /\ component = "tools"
    /\ toolIn.pipeline = "sdk4" /\ toolIn.entry = "analyzer"
    /\ ~toolOut.done
    /\ toolOut' = RunOutcome(TRUE, "returned", TRUE, analyze_methods_sdk4(toolIn.methods))
    /\ UNCHANGED <<toolIn, toolFrame>>

ToolsNext == run_analyze_sdk2 \/ main_sdk2 \/ run_analyze_sdk4

(***************************************************************************)
(* Command-line orchestrators and discovery                                *)
(* (src/sdk2.py, src/sdk4.py main and SDKToMCPConverter.convert;           *)
(*  discover_methods; src/converter/inspector.py)                          *)
(***************************************************************************)
MaxRuns == 2        \* processes started one after another on one input

\* What importing the target library does: it loads, it raises ImportError
\* (not installed), or it raises another exception while loading (a
\* SyntaxError or an AttributeError in the library's own code).
ImportOutcomes == {"loads", "ImportError", "OtherError"}

\* The result of a discovery call: whether an exception left it, which one,
\* and the descriptors it returned.
Discovery(raised, exception, methods) ==
    [raised |-> raised, exception |-> exception, methods |-> methods]
NoDiscovery == Discovery(FALSE, "not run", <<>>)

\* sdk2 / sdk4 SDKIntrospector.discover_methods: `members` are the members
\* of the classes it explores.  Only ImportError is caught.
discover_methods(importOutcome, members) ==
    CASE importOutcome = "loads"       -> Discovery(FALSE, "none", explore_class(members))
      [] importOutcome = "ImportError" -> Discovery(FALSE, "none", <<>>)
      [] OTHER                         -> Discovery(TRUE, "OtherError", <<>>)

\* converter/inspector.py collect_module_callables: any failure of the
\* import is raised again as ImportError.
collect_module_callables(importOutcome, members) ==
    IF importOutcome = "loads" THEN Discovery(FALSE, "none", members)
    ELSE Discovery(TRUE, "ImportError", <<>>)

\* The artifacts a pipeline's generate_server writes, in the order written.
ArtifactsOf_ConfigOnly(pipeline) == <<"config">>
ArtifactsOf(pipeline) ==
    IF pipeline = "sdk4" THEN <<"server", "config", "readme">>
    ELSE <<"server", "config">>

\* The categories of sdk4 tools, and the orders in which a process may
\* iterate a set of them: string hashing is seeded per process, so the
\* order of list(set(...)) is fixed within a process and differs between
\* processes.  Two of the orders are enough here.
Categories == <<"create", "read", "update", "delete", "other">>
HashOrders ==
    {Categories, <<"other", "delete", "update", "read", "create">>}

\* The distinct elements of items, in order of first appearance.
FirstAppearances(items) ==
    LET first == {i \in 1..Len(items) : \A j \in 1..(i - 1) : items[j] # items[i]}
    IN  [r \in 1..Cardinality(first) |->
            items[CHOOSE i \in first : Cardinality({j \in first : j < i}) = r - 1]]

\* list(set(items)) in a process whose set iteration follows `order`.
ListOfSet(items, order) ==
    LET present == {i \in 1..Len(order) : order[i] \in Range(items)}
    IN  [r \in 1..Cardinality(present) |->
            order[CHOOSE i \in present : Cardinality({j \in present : j < i}) = r - 1]]

\* The server source as the text's variable parts: the SDK name, the tool
\* definitions and the dispatch branches (sdk4) or handlers (sdk2).
ServerSource(pipeline, tools, sdk_name) ==
    [sdk_name    |-> sdk_name,
     count       |-> Len(tools),
     definitions |-> [i \in 1..Len(tools) |->
                        [name |-> tools[i].name,
                         description |-> tools[i].description,
                         input_schema |-> tools[i].parameters]],
     branches    |-> GenerateBranches(tools)]

\* _generate_config: sdk4 adds the count to the description and the
\* categories list.
generate_config(pipeline, tools, sdk_name, order) ==
    [server      |-> sdk_name \o <<"-", "m", "c", "p">>,
     command     |-> <<"p", "y", "t", "h", "o", "n">>,
     args        |-> <<sdk_name \o <<"_", "m", "c", "p", "_", "s", "e", "r", "v", "e", "r", ".", "p", "y">>>>,
     count       |-> IF pipeline = "sdk4" THEN Len(tools) ELSE 0,
     tools       |-> [i \in 1..Len(tools) |-> tools[i].name],
     categories  |-> IF pipeline = "sdk4"
                     THEN ListOfSet([i \in 1..Len(tools) |-> tools[i].category], order)
                     ELSE <<>>]

\* sdk4 _generate_readme: the tools grouped by category in order of first
\* appearance, each with its description cut to 100 characters.
generate_readme(sdk_name, tools) ==
    LET cats == FirstAppearances([i \in 1..Len(tools) |-> tools[i].category])
        Cut(d) == IF Len(d) > 100 THEN SubSeq(d, 1, 100) \o <<".", ".", ".">> ELSE d
        InCat(c) == {i \in 1..Len(tools) : tools[i].category = c}
        Entries(c) ==
            [r \in 1..Cardinality(InCat(c)) |->
                LET i == CHOOSE i \in InCat(c) :
                             Cardinality({j \in InCat(c) : j < i}) = r - 1
                IN  [name |-> tools[i].name, description |-> Cut(tools[i].description)]]
    IN  [sdk_name |-> sdk_name,
         count    |-> Len(tools),
         sections |-> [k \in 1..Len(cats) |->
                          [category |-> cats[k], tools |-> Entries(cats[k])]]]

\* The content of artifact `name`.
ArtifactContent(name, pipeline, tools, sdk_name, order) ==
    CASE name = "server" -> [kind |-> "server", server |-> ServerSource(pipeline, tools, sdk_name)]
      [] name = "config" -> [kind |-> "config", config |-> generate_config(pipeline, tools, sdk_name, order)]
      [] OTHER           -> [kind |-> "readme", readme |-> generate_readme(sdk_name, tools)]

\* What the chat API does with the batches of a CLI run of sdk2: every
\* request fails, or every request is answered with three tools.
CliOutcomes(n) ==
    {[k \in 1..BatchCount(n) |-> ApiError], [k \in 1..BatchCount(n) |-> ReplyThree]}

\* The input of a run: the pipeline, how it is entered ("main" for the
\* command line, "inspector" for a call of collect_module_callables), the
\* SDK name, whether an API key is given, what the import does, the members
\* of the classes explored, which artifact cannot be written, and (sdk2)
\* the chat API's answers.
CliInput(pipeline, entry, credential, importOutcome, members, unwritable, outcomes) ==
    [pipeline |-> pipeline, entry |-> entry, sdk_name |-> <<"k", "u", "b", "e", "r", "n", "e", "t", "e", "s">>,
     credential |-> credential, importOutcome |-> importOutcome, members |-> members,
     unwritable |-> unwritable, outcomes |-> outcomes]
MemberLists == DistinctSeqUpTo(Members, 2)
CliInputs ==
    {CliInput("sdk4", "main", c, i, IF i = "loads" THEN f ELSE <<>>, u, <<>>) :
        c \in BOOLEAN, i \in ImportOutcomes, f \in MemberLists,
        u \in {"none", "server", "config", "readme"}}
    \cup UNION {{CliInput("sdk2", "main", c, i, IF i = "loads" THEN f ELSE <<>>, u, o) :
                    c \in BOOLEAN, i \in ImportOutcomes,
                    u \in {"none", "server", "config"},
                    o \in CliOutcomes(Len(explore_class(f)))} : f \in MemberLists}
    \cup {CliInput("flat", "inspector", FALSE, i, IF i = "loads" THEN f ELSE <<>>, "none", <<>>) :
             i \in ImportOutcomes, f \in MemberLists}

\* A process: where it is ("credential", "discovery", "mapping",
\* "generation", "return", "exited"), its exit code (-1 while it runs), the
\* stages it entered, the discovery result, the tools, the artifacts it has
\* written (name and content, in order) and its set iteration order.
Process(stage, order) ==
    [stage |-> stage, exit |-> -1, entered |-> <<stage>>, discovery |-> NoDiscovery,
     tools |-> <<>>, written |-> <<>>, order |-> order]

Enter(p, stage) == [p EXCEPT !.stage = stage, !.entered = Append(@, stage)]
Exit(p, code) == [p EXCEPT !.stage = "exited", !.exit = code]

CliInit ==
    /\ cliIn \in CliInputs
    /\ cli \in {Process(IF cliIn.entry = "main" THEN "credential" ELSE "discovery", o) :
                   o \in HashOrders}
    /\ runs = <<>>

main_credential_NoCheck ==
    /\ component = "cli" /\ cliIn.entry = "main" /\ cli.stage = "credential"
    /\ cli' = Enter(cli, "discovery")
    /\ UNCHANGED <<cliIn, runs, cliFrame>>

\* main: api_key = args.api_key or os.getenv(...); exit 1 without one.
main_credential ==
    /\ component = "cli" /\ cliIn.entry = "main" /\ cli.stage = "credential"
    /\ cli' = IF cliIn.credential THEN Enter(cli, "discovery") ELSE Exit(cli, 1)
    /\ UNCHANGED <<cliIn, runs, cliFrame>>

\* convert, step 1: discover_methods, then ValueError when nothing was
\* found; any exception ends main with exit code 1.
convert_discover ==
    /\ component = "cli" /\ cliIn.entry = "main" /\ cli.stage = "discovery"
    /\ LET d == discover_methods(cliIn.importOutcome, cliIn.members)
           p == [cli EXCEPT !.discovery = d]
       IN  cli' = IF d.raised \/ d.methods = <<>> THEN Exit(p, 1)
                  ELSE Enter(p, "mapping")
    /\ UNCHANGED <<cliIn, runs, cliFrame>>

\* convert, step 2: analyze_methods.
convert_analyze ==
    /\ component = "cli" /\ cli.stage = "mapping"
    /\ LET tools == IF cliIn.pipeline = "sdk4"
                    THEN analyze_methods_sdk4(cli.discovery.methods)
                    ELSE analyze_methods_sdk2(cli.discovery.methods, cliIn.outcomes)
       IN  cli' = [Enter(cli, "generation") EXCEPT !.tools = tools]
    /\ UNCHANGED <<cliIn, runs, cliFrame>>

\* convert, step 3: generate_server writes the next artifact; a write that
\* fails ends main with exit code 1.
generate_server_write ==
    /\ component = "cli" /\ cli.stage = "generation"
    /\ LET names == ArtifactsOf(cliIn.pipeline)
           k     == Len(cli.written) + 1
       IN  IF names[k] = cliIn.unwritable THEN cli' = Exit(cli, 1)
           ELSE LET p == [cli EXCEPT !.written = Append(@,
                              [name |-> names[k],
                               content |-> ArtifactContent(names[k], cliIn.pipeline,
                                              cli.tools, cliIn.sdk_name, cli.order)])]
                IN  cli' = IF k = Len(names) THEN Enter(p, "return") ELSE p
    /\ UNCHANGED <<cliIn, runs, cliFrame>>

\* main returns after convert: the process ends with exit code 0.
main_return ==
    /\ component = "cli" /\ cli.stage = "return"
    /\ cli' = Exit(cli, 0)
    /\ UNCHANGED <<cliIn, runs, cliFrame>>

\* A call of collect_module_callables on the target library.
run_collect_module_callables ==
    /\ component = "cli" /\ cliIn.entry = "inspector" /\ cli.stage = "discovery"
    /\ cli' = [Exit(cli, 0) EXCEPT
                  !.discovery = collect_module_callables(cliIn.importOutcome, cliIn.members)]
    /\ UNCHANGED <<cliIn, runs, cliFrame>>

\* The same command is run again, in a new process, on the same input.
run_again(order) ==
    /\ component = "cli" /\ cliIn.entry = "main" /\ cli.stage = "exited"
    /\ Len(runs) + 1 < MaxRuns
    /\ runs' = Append(runs, cli)
    /\ cli' = Process("credential", order)
    /\ UNCHANGED <<cliIn, cliFrame>>

CliNext ==
    \/ main_credential
    \/ convert_discover
    \/ convert_analyze
    \/ generate_server_write
    \/ main_return
    \/ run_collect_module_callables
    \/ \E order \in HashOrders : run_again(order)

(***************************************************************************)
(* Dynamic auto-registrar (src/main.py): credential check at import time,  *)
(* discovery of the SDK's callables, one POST route per callable, then the *)
(* HTTP server                                                             *)
(***************************************************************************)
MaxFunctions == 2   \* entries of the mapping load_sdk_functions returns
MaxRequests  == 2   \* requests served while listening
ListenPort   == 8000

\* Full names load_sdk_functions gives: a module function, a method of a
\* class, and a function of a submodule.
FunctionNames ==
    {<<"s", "d", "k", ".", "c", "o", "n", "n", "e", "c", "t">>, <<"s", "d", "k", ".", "C", "l", "i", "e", "n", "t", ".", "g", "e", "t">>, <<"s", "d", "k", ".", "s", "u", "b", ".", "r", "u", "n">>}

\* A run: whether OPENAI_API_KEY is set, whether the command line carries
\* --sdk, whether the SDK and its submodules import, and the mapping
\* discovery builds (a dict: every full name once, in insertion order).
AutoInput(credential, sdkArg, importOutcome, functions) ==
    [credential |-> credential, sdkArg |-> sdkArg,
     importOutcome |-> importOutcome, functions |-> functions]
AutoInputs ==
    {AutoInput(c, a, i, f) :
        c \in BOOLEAN, a \in BOOLEAN, i \in {"loads", "ImportError"},
        f \in DistinctSeqUpTo(FunctionNames, MaxFunctions)}

\* The process: its stage, its exit status (-1 while it runs), the stages
\* it entered, the discovered mapping, the routes bound on the app, the
\* port it listens on (0: none) and the requests it served.
AutoProcess(stage, entered) ==
    [stage |-> stage, exit |-> -1, entered |-> entered, functions |-> <<>>,
     routes |-> <<>>, port |-> 0, served |-> <<>>]

AutoInit ==
    /\ autoIn \in AutoInputs
    /\ auto = AutoProcess("credential", <<"credential">>)

\* Module level: without OPENAI_API_KEY the import raises ValueError;
\* otherwise the OpenAI client and the FastAPI app are created.
auto_credential ==
    /\ component = "auto"
    /\ auto.stage = "credential"
    /\ auto' = IF ~autoIn.credential
               THEN [auto EXCEPT !.stage = "exited", !.exit = 1]
               ELSE [auto EXCEPT !.stage = "discovery",
                                 !.entered = Append(@, "discovery")]
    /\ UNCHANGED <<autoIn, autoFrame>>

\* __main__ up to the loop of generate_endpoints: argparse exits with
\* status 2 without --sdk; load_sdk_functions walks the SDK, and a failing
\* import ends the process before any route exists.
load_sdk_functions ==
    /\ component = "auto"
    /\ auto.stage = "discovery"
    /\ auto' = IF ~autoIn.sdkArg
               THEN [auto EXCEPT !.stage = "exited", !.exit = 2]
               ELSE IF autoIn.importOutcome # "loads"
               THEN [auto EXCEPT !.stage = "exited", !.exit = 1]
               ELSE [auto EXCEPT !.stage = "binding",
                                 !.entered = Append(@, "binding"),
                                 !.functions = autoIn.functions]
    /\ UNCHANGED <<autoIn, autoFrame>>

\* One turn of the loop of generate_endpoints: create_endpoint binds
\* POST /<func_name> for the next entry of the mapping.
create_endpoint ==
    /\ component = "auto"
    /\ auto.stage = "binding"
    /\ Len(auto.routes) < Len(auto.functions)
    /\ auto' = [auto EXCEPT !.routes =
                   Append(@, [method |-> "POST",
                              path |-> <<"/">> \o auto.functions[Len(auto.routes) + 1]])]
    /\ UNCHANGED <<autoIn, autoFrame>>

\* Mutant: the server starts before the loop has bound every route.
uvicorn_run_Early ==
    /\ component = "auto"
    /\ auto.stage = "binding"
    /\ auto' = [auto EXCEPT !.stage = "listening",
                            !.entered = Append(@, "listening"),
                            !.port = ListenPort]
    /\ UNCHANGED <<autoIn, autoFrame>>

\* uvicorn.run(app, host="0.0.0.0", port=8000), after the loop.
uvicorn_run ==
    /\ component = "auto"
    /\ auto.stage = "binding"
    /\ Len(auto.routes) = Len(auto.functions)
    /\ auto' = [auto EXCEPT !.stage = "listening",
                            !.entered = Append(@, "listening"),
                            !.port = ListenPort]
    /\ UNCHANGED <<autoIn, autoFrame>>

\* The handler of a bound route: it calls the function and answers
\* {"result": ...}, or {"error": ...} when the function raises.
endpoint(r, outcome) ==
    /\ component = "auto"
    /\ auto.stage = "listening"
    /\ Len(auto.served) < MaxRequests
    /\ r \in 1..Len(auto.routes)
    /\ auto' = [auto EXCEPT !.served =
                   Append(@, [path |-> auto.routes[r].path, reply |-> outcome])]
    /\ UNCHANGED <<autoIn, autoFrame>>

AutoNext ==
    \/ auto_credential
    \/ load_sdk_functions
    \/ create_endpoint
    \/ uvicorn_run
    \/ \E r \in 1..MaxFunctions, outcome \in {"result", "error"} : endpoint(r, outcome)

(***************************************************************************)
(* Idle values: a run of one program leaves the others' state alone        *)
(***************************************************************************)
DispatchIdle ==
    /\ ROUTES = <<>> /\ seeded = <<>> /\ registered = <<>> /\ last = NoRequest
ServerIdle ==
    /\ profile = "none" /\ construction = "none" /\ process = "none"
    /\ TOOLS = <<>> /\ branches = <<>> /\ sdk_client = "unbound"
    /\ constructions = 0 /\ libraryCalls = 0 /\ escaped = FALSE /\ calls = <<>>
MapperIdle ==
    /\ mapIn = [items |-> <<>>, use_llm |-> FALSE, OPENAI_KEY |-> FALSE, outcomes |-> <<>>]
    /\ mapOut = [done |-> FALSE, ops |-> <<>>, requests |-> 0] /\ openapi = NoDocument
ToolsIdle ==
    /\ toolIn = ToolInput("none", "none", <<>>, FALSE, <<>>) /\ toolOut = NotRun
CliIdle ==
    /\ cliIn = CliInput("none", "none", FALSE, "loads", <<>>, "none", <<>>)
    /\ cli = Process("none", <<>>) /\ runs = <<>>

AutoIdle ==
    /\ autoIn = AutoInput(FALSE, FALSE, "loads", <<>>)
    /\ auto = AutoProcess("none", <<>>)

InitDispatch ==
    /\ component = "dispatch" /\ DispatchInit /\ ServerIdle /\ MapperIdle /\ ToolsIdle
    /\ CliIdle /\ AutoIdle
InitServer ==
    /\ component = "server" /\ DispatchIdle /\ ServerInit /\ MapperIdle /\ ToolsIdle
    /\ CliIdle /\ AutoIdle
InitMapper ==
    /\ component = "mapper" /\ DispatchIdle /\ ServerIdle /\ MapperInit /\ ToolsIdle
    /\ CliIdle /\ AutoIdle
InitCli ==
    /\ component = "cli" /\ DispatchIdle /\ ServerIdle /\ MapperIdle /\ ToolsIdle
    /\ CliInit /\ AutoIdle
InitTools ==
    /\ component = "tools" /\ DispatchIdle /\ ServerIdle /\ MapperIdle /\ ToolsInit
    /\ CliIdle /\ AutoIdle
InitAuto ==
    /\ component = "auto" /\ DispatchIdle /\ ServerIdle /\ MapperIdle /\ ToolsIdle
    /\ CliIdle /\ AutoInit

SpecDispatch == InitDispatch /\ [][DispatchNext]_vars
SpecServer   == InitServer /\ [][ServerNext]_vars
SpecMapper   == InitMapper /\ [][MapperNext]_vars
SpecTools    == InitTools /\ [][ToolsNext]_vars
SpecCli      == InitCli /\ [][CliNext]_vars
SpecAuto     == InitAuto /\ [][AutoNext]_vars

(***************************************************************************)
(* Claims: generic dispatch service                                        *)
(***************************************************************************)
\* The operationId of the last /invoke request (None when the body has none).
LastOpId == IF last.payload.hasOpId THEN last.payload.operationId ELSE NoneVal

RegisteredOpIds == {GetOperationId(registered[i]) : i \in 1..Len(registered)}
SeededOpIds     == {GetOperationId(seeded[i]) : i \in 1..Len(seeded)}

\* Whether a `callable` string names a loadable module and a symbol of it.
Resolvable(target) ==
    /\ Truthy(target)
    /\ Len(SplitOnce(target, ":")) = 2
    /\ SplitOnce(target, ":")[1] \in ImportableModules
    /\ SplitOnce(target, ":")[2] \in ModuleSymbols

\* C1 as stated: a POST /invoke with a non-empty operationId that was never
\* the operationId of an object passed to /register returns 404.
C1_NeverRegistered404 ==
    (last.ep = "invoke" /\ Truthy(LastOpId) /\ LastOpId \notin RegisteredOpIds)
        => last.status = 404

\* C1 amended: a POST /invoke with a non-empty operationId that is neither the
\* operationId of an object passed to /register nor of a route loaded from
\* routes.json at startup returns 404.
C1_NeverRegisteredNorSeeded404 ==
    (/\ last.ep = "invoke"
     /\ Truthy(LastOpId)
     /\ LastOpId \notin RegisteredOpIds
     /\ LastOpId \notin SeededOpIds)
        => last.status = 404

\* C1 witness: after a registration, an /invoke of another, never registered
\* and never seeded operationId was answered 404.
C1_Witness ==
    /\ last.ep = "invoke" /\ Truthy(LastOpId)
    /\ registered # <<>> /\ seeded # <<>>
    /\ \E i \in 1..Len(ROUTES) : ROUTES[i].hasOpId
    /\ LastOpId \notin RegisteredOpIds /\ LastOpId \notin SeededOpIds
    /\ last.status = 404

\* C2: once /register has accepted a route {operationId: X, callable: c} with
\* c resolvable, and that route is the one X resolves to, POST /invoke with
\* {operationId: X, args: A} answers 200 with the value of calling c with A.
C2_InvokeReturnsCallableResult ==
    (/\ last.ep = "invoke"
     /\ Truthy(LastOpId)
     /\ MatchIndexes(ROUTES, LastOpId) # {}
     /\ FirstMatch(ROUTES, LastOpId) \in Range(registered)
     /\ Resolvable(GetCallable(FirstMatch(ROUTES, LastOpId)))
     /\ SplitOnce(GetCallable(FirstMatch(ROUTES, LastOpId)), ":")[2] \notin RaisingSymbols)
        => /\ last.status = 200
           /\ last.body = CallResult(SplitOnce(GetCallable(FirstMatch(ROUTES, LastOpId)), ":")[2],
                                     last.payload.args)

\* C3: POST /invoke answers 400 to a missing or empty operationId, 404 when no
\* registry entry has the operationId, and 500 when the matched entry has no
\* callable, a malformed callable, or one that cannot be loaded, resolved or
\* invoked.
C3_FailureStatuses ==
    last.ep = "invoke" =>
        IF ~Truthy(LastOpId) THEN last.status = 400
        ELSE IF MatchIndexes(ROUTES, LastOpId) = {} THEN last.status = 404
        ELSE LET target == GetCallable(FirstMatch(ROUTES, LastOpId))
             IN  (\/ ~Resolvable(target)
                  \/ SplitOnce(target, ":")[2] \in RaisingSymbols)
                     => last.status = 500

(***************************************************************************)
(* Claims: generated implementation-tier server                            *)
(***************************************************************************)
Listed(name) == name \in Range(TOOLS)
UnknownToolReply(name) == <<ErrorReply(<<"U", "n", "k", "n", "o", "w", "n", " ", "t", "o", "o", "l", ":", " ">> \o name)>>
NotInitializedReply == <<ErrorReply(<<"S", "D", "K", " ", "c", "l", "i", "e", "n", "t", " ", "n", "o", "t", " ", "i", "n", "i", "t", "i", "a", "l", "i", "z", "e", "d">>)>>

\* The server has been started.
Started == process # "starting"

\* C4: in a generated server that has been started, every call whose name is
\* absent from the tool list gets the single reply
\* {"error": "Unknown tool: <name>"}, no failure leaves the handler, and a
\* later call naming a listed tool enters that tool's branch.
C4_UnknownToolReply ==
    Started =>
        /\ ~escaped
        /\ \A i \in 1..Len(calls) :
              ~Listed(calls[i].name) =>
                  /\ calls[i].replies = UnknownToolReply(calls[i].name)
                  /\ \A j \in (i+1)..Len(calls) :
                        Listed(calls[j].name) =>
                            /\ calls[j].branch > 0
                            /\ branches[calls[j].branch].name = calls[j].name

\* C5: in a generated server that has been started, client construction was
\* attempted exactly once; where construction fails the singleton is unset
\* and stays so, and every call, whatever its name, gets the reply
\* {"error": "SDK client not initialized"} without reaching the library.
C5_UninitializedClient ==
    Started =>
        /\ constructions = 1
        /\ construction = "fails" =>
              /\ sdk_client = "unset"
              /\ libraryCalls = 0
              /\ \A i \in 1..Len(calls) :
                    calls[i].replies = NotInitializedReply /\ ~calls[i].invoked

\* Whether the branch a call entered failed.
BranchFailed(c) ==
    /\ c.branch > 0
    /\ BranchBody(branches[c.branch], c.arguments, c.env).raised

\* C6: in a generated server started where client construction succeeds,
\* every call gets exactly one reply, a failing branch is answered
\* {"error": <message>}, and no failure leaves the handler.
C6_FaultBoundary ==
    (Started /\ construction = "succeeds") =>
        /\ ~escaped
        /\ \A i \in 1..Len(calls) :
              /\ Len(calls[i].replies) = 1
              /\ (BranchFailed(calls[i]) =>
                    calls[i].replies =
                        <<ErrorReply(BranchBody(branches[calls[i].branch],
                                                calls[i].arguments, calls[i].env).text)>>)

(***************************************************************************)
(* Claims: REST mapper                                                     *)
(***************************************************************************)
HttpMethods == {<<"G", "E", "T">>, <<"P", "O", "S", "T">>, <<"P", "U", "T">>, <<"P", "A", "T", "C", "H">>, <<"D", "E", "L", "E", "T", "E">>}

\* C7: every operation map_many returns has an HTTP method among GET, POST,
\* PUT, PATCH, DELETE, with or without LLM assistance.
C7_HttpMethodInSet ==
    mapOut.done =>
        \A i \in 1..Len(mapOut.ops) : mapOut.ops[i].http_method \in HttpMethods

\* ---- tool pipelines

\* The keys of a parameters object's "properties".
PropertyKeys(parameters) ==
    {parameters.properties[i].name : i \in 1..Len(parameters.properties)}

\* The parameter names of a method's signature without the receiver.
ParamNamesMinusSelf(method) ==
    {method.signature[i].name : i \in 1..Len(method.signature)} \ {<<"s", "e", "l", "f">>}

\* C8: every tool definition a pipeline produces (sdk4 schema, sdk2 fallback,
\* sdk2 LLM-parsed) has a required list that is a subset of its properties
\* keys.
C8_RequiredSubsetOfProperties ==
    toolOut.done =>
        \A i \in 1..Len(toolOut.tools) :
            Range(toolOut.tools[i].parameters.required)
                \subseteq PropertyKeys(toolOut.tools[i].parameters)

\* C9: no two tool definitions of one run share a name.
C9_ToolNamesUnique ==
    toolOut.done =>
        \A i, j \in 1..Len(toolOut.tools) :
            toolOut.tools[i].name = toolOut.tools[j].name => i = j

\* Tool `tool` is what the deterministic fallback makes of `method`: it
\* carries the method's name and path, and its properties keys are the
\* method's parameter names minus the receiver.
FallbackOf(tool, method) ==
    /\ tool.name = method.name
    /\ tool.method_path = method.full_path
    /\ tool.category = "general"
    /\ PropertyKeys(tool.parameters) = ParamNamesMinusSelf(method)

\* A run in which the sdk2 analyzer was applied with no API key configured.
NoCredentialRun ==
    toolOut.done /\ toolOut.analyzed /\ toolIn.pipeline = "sdk2" /\ ~toolIn.credential

\* C10 as stated: without a credential, the batch-analysis mapper on N
\* methods returns exactly N tools, the i-th the fallback of the i-th method.
C10_NoCredentialAllMethods ==
    NoCredentialRun =>
        /\ Len(toolOut.tools) = Len(toolIn.methods)
        /\ \A i \in 1..Len(toolOut.tools) :
               FallbackOf(toolOut.tools[i], toolIn.methods[i])

\* C10 amended: without a credential, the batch-analysis mapper on N methods
\* returns min(N, 100) tools, each the fallback of one of the methods, and
\* for N <= 100 the i-th tool is the fallback of the i-th method.
C10_NoCredentialUpToCap ==
    NoCredentialRun =>
        LET N == Len(toolIn.methods)
        IN  /\ Len(toolOut.tools) = IF N > max_methods_sdk2 THEN max_methods_sdk2 ELSE N
            /\ \A i \in 1..Len(toolOut.tools) :
                   \E j \in 1..N : FallbackOf(toolOut.tools[i], toolIn.methods[j])
            /\ N <= max_methods_sdk2 =>
                   \A i \in 1..Len(toolOut.tools) :
                       FallbackOf(toolOut.tools[i], toolIn.methods[i])

\* A run without credential over more methods than one batch holds, whose
\* tools include one with properties.
C10_Witness ==
    /\ NoCredentialRun
    /\ Len(toolIn.methods) > batch_size
    /\ Len(toolOut.tools) = Len(toolIn.methods)
    /\ \E i \in 1..Len(toolOut.tools) :
           /\ toolOut.tools[i].parameters.properties # <<>>
           /\ \E k \in 1..Len(toolIn.methods[i].signature) :
                  toolIn.methods[i].signature[k].name = <<"s", "e", "l", "f">>

\* A run in which the sdk2 analyzer was applied to at most max_methods_sdk2
\* methods.
AnalyzedRunSdk2 ==
    /\ toolOut.done /\ toolOut.analyzed /\ toolIn.pipeline = "sdk2"
    /\ Len(toolIn.methods) <= max_methods_sdk2

\* C11: for N <= 100 methods and any outcome of each batch request, the
\* batch analysis returns one tool per input method, in input order, the
\* i-th tool carrying the i-th method's full path.
C11_NoMethodDropped ==
    AnalyzedRunSdk2 =>
        /\ Len(toolOut.tools) = Len(toolIn.methods)
        /\ \A i \in 1..Len(toolOut.tools) :
               toolOut.tools[i].method_path = toolIn.methods[i].full_path

(***************************************************************************)
(* Claims: command-line orchestrators, generation and discovery            *)
(***************************************************************************)
\* C12: two separate runs of the implementation-tier generator on the same
\* tool list and profile write the same server source, the same
\* configuration document (tools list and categories list in the same
\* order) and the same setup guide.
C12_TwoRunsIdentical ==
    (cliIn.pipeline = "sdk4" /\ cli.exit = 0) =>
        \A r \in 1..Len(runs) :
            runs[r].exit = 0 =>
                /\ runs[r].tools = cli.tools
                /\ runs[r].written = cli.written

\* The method entries of the document: <<i, k>> for the k-th method entry
\* of the i-th path entry.
DocEntries ==
    UNION {{<<i, k>> : k \in 1..Len(openapi.doc.paths[i][2])} :
              i \in 1..Len(openapi.doc.paths)}

\* The operationId found at paths[path][method], <<>> when there is none.
DocOperationId(path, method) ==
    DictGet(DictGet(openapi.doc.paths, path, <<>>), method,
            [operationId |-> <<>>]).operationId

\* C13: the generated document has info.version "0.1.0" and, for every
\* input operation, an entry at paths[op.path][lowercase(op.http_method)]
\* carrying that operation's operationId; the method entries over all
\* paths are as many as the input operations.
C13_EveryOperationHasEntry ==
    openapi.done =>
        /\ openapi.doc.info.version = <<"0", ".", "1", ".", "0">>
        /\ \A j \in 1..Len(mapOut.ops) :
               DocOperationId(mapOut.ops[j].path, Lower(mapOut.ops[j].http_method))
                   = mapOut.ops[j].operationId
        /\ Cardinality(DocEntries) = Len(mapOut.ops)

(***************************************************************************)
(* Claims: the heuristic of the REST mapper                                *)
(***************************************************************************)
\* A finished run in which map_callable returned its heuristic operation
\* for every item: LLM assistance was off, or no credential was set.
HeuristicRun == mapOut.done /\ ~(mapIn.use_llm /\ mapIn.OPENAI_KEY)

\* The final token of a qualified name split on '.' or '_': its longest
\* suffix that holds neither.
NounOf(qual) ==
    LET Clean(k) == \A i \in (Len(qual) - k + 1)..Len(qual) : qual[i] \notin {".", "_"}
        k == CHOOSE m \in 0..Len(qual) :
                 Clean(m) /\ \A n \in 0..Len(qual) : Clean(n) => n <= m
    IN  SubSeq(qual, Len(qual) - k + 1, Len(qual))

\* plural: a trailing 'y' is dropped and 'ies' appended, else 's' appended.
PluralOf(noun) ==
    IF Len(noun) > 0 /\ noun[Len(noun)] = "y"
    THEN [i \in 1..(Len(noun) + 2) |->
            IF i < Len(noun) THEN noun[i]
            ELSE IF i = Len(noun) THEN "i" ELSE IF i = Len(noun) + 1 THEN "e" ELSE "s"]
    ELSE Append(noun, "s")

\* One "/{p}" segment for each path-classified parameter, in order.
RECURSIVE PathSegments(_)
PathSegments(params) ==
    IF params = <<>> THEN <<>>
    ELSE (IF Head(params).in = "path"
          THEN <<"/", "{">> \o Head(params).name \o <<"}">>
          ELSE <<>>) \o PathSegments(Tail(params))

\* The names of seq `names` appear in signature `sig` in the same order.
InSignatureOrder(names, sig) ==
    \E f \in [1..Len(names) -> 1..Len(sig)] :
        /\ \A i \in 1..Len(names) : sig[f[i]].name = names[i]
        /\ \A i, j \in 1..Len(names) : i < j => f[i] < f[j]

\* C14: the heuristic path of a callable is "/" + plural(noun) followed by
\* one "/{p}" segment for each path-classified parameter in signature
\* order, noun being the final token of the qualified name split on '.' or
\* '_'; CoreV1Api.read_namespaced_pod(name, namespace) gives
\* "/pods/{name}/{namespace}", both parameters path and required.
C14_HeuristicPath ==
    HeuristicRun =>
        /\ Len(mapOut.ops) = Len(mapIn.items)
        /\ \A i \in 1..Len(mapOut.ops) :
               LET op == mapOut.ops[i]
                   item == mapIn.items[i]
               IN  /\ op.path = <<"/">> \o PluralOf(NounOf(item.qualname))
                                    \o PathSegments(op.params)
                   /\ InSignatureOrder([k \in 1..Len(op.params) |-> op.params[k].name],
                                       item.signature)
                   /\ item = ItemReadPod =>
                          /\ op.path = <<"/", "p", "o", "d", "s", "/", "{", "n", "a", "m", "e", "}", "/", "{", "n", "a", "m", "e", "s", "p", "a", "c", "e", "}">>
                          /\ op.params = <<[name |-> <<"n", "a", "m", "e">>, in |-> "path", required |-> TRUE],
                                           [name |-> <<"n", "a", "m", "e", "s", "p", "a", "c", "e">>, in |-> "path", required |-> TRUE]>>

\* A heuristic run over read_namespaced_pod and get_category: a path with
\* two parameter segments and a noun ending in 'y'.
C14_Witness ==
    /\ HeuristicRun
    /\ \E i, j \in 1..Len(mapOut.ops) :
           /\ mapIn.items[i] = ItemReadPod
           /\ mapOut.ops[i].path = <<"/", "p", "o", "d", "s", "/", "{", "n", "a", "m", "e", "}", "/", "{", "n", "a", "m", "e", "s", "p", "a", "c", "e", "}">>
           /\ mapIn.items[j] = ItemGetCategory
           /\ mapOut.ops[j].path = <<"/", "c", "a", "t", "e", "g", "o", "r", "i", "e", "s", "/", "{", "c", "a", "t", "e", "g", "o", "r", "y", "_", "i", "d", "}">>

\* The parameter name contains, case-insensitively, one of the id-like
\* words.
IdLikeName(pname) ==
    \E w \in {<<"n", "a", "m", "e">>, <<"i", "d">>, <<"n", "a", "m", "e", "s", "p", "a", "c", "e">>, <<"o", "w", "n", "e", "r">>, <<"r", "e", "p", "o">>, <<"r", "e", "s", "o", "u", "r", "c", "e">>} :
        \E off \in 0..(Len(pname) - Len(w)) :
            \A j \in 1..Len(w) : Lower(pname)[off + j] = w[j]

\* C15: the receiver and the catch-all variadic keyword parameter, whatever
\* its name, are in no operation's parameter list; every other parameter
\* appears exactly once, as a required path parameter when its name is
\* id-like, otherwise as a query parameter required exactly when it has no
\* default.
C15_ParameterClassification ==
    HeuristicRun =>
        \A i \in 1..Len(mapOut.ops) :
            LET params == mapOut.ops[i].params
                sig    == mapIn.items[i].signature
                Entries(p) == {k \in 1..Len(params) : params[k].name = p.name}
            IN  \A s \in 1..Len(sig) :
                    IF sig[s].name = <<"s", "e", "l", "f">> \/ sig[s].kind = "VAR_KEYWORD"
                    THEN Entries(sig[s]) = {}
                    ELSE /\ Cardinality(Entries(sig[s])) = 1
                         /\ \A k \in Entries(sig[s]) :
                                IF IdLikeName(sig[s].name)
                                THEN params[k].in = "path" /\ params[k].required
                                ELSE /\ params[k].in = "query"
                                     /\ params[k].required = ~sig[s].hasDefault

\* The short method name: the part of a qualified name after the last '.'.
ShortName(qual) ==
    LET Dots == {i \in 1..Len(qual) : qual[i] = "."}
    IN  IF Dots = {} THEN qual
        ELSE SubSeq(qual, (CHOOSE i \in Dots : \A j \in Dots : j <= i) + 1, Len(qual))

\* The verb table in its order, and the method of the first prefix of the
\* lower-cased name found in it, POST when there is none.
VerbTable ==
    << <<<<"g", "e", "t">>, <<"G", "E", "T">>>>, <<<<"l", "i", "s", "t">>, <<"G", "E", "T">>>>, <<<<"r", "e", "a", "d">>, <<"G", "E", "T">>>>,
       <<<<"c", "r", "e", "a", "t", "e">>, <<"P", "O", "S", "T">>>>, <<<<"p", "o", "s", "t">>, <<"P", "O", "S", "T">>>>,
       <<<<"d", "e", "l", "e", "t", "e">>, <<"D", "E", "L", "E", "T", "E">>>>, <<<<"r", "e", "m", "o", "v", "e">>, <<"D", "E", "L", "E", "T", "E">>>>,
       <<<<"u", "p", "d", "a", "t", "e">>, <<"P", "A", "T", "C", "H">>>>, <<<<"p", "a", "t", "c", "h">>, <<"P", "A", "T", "C", "H">>>>, <<<<"p", "u", "t">>, <<"P", "U", "T">>>> >>
MethodByPrefix(name) ==
    LET Hits == {i \in 1..Len(VerbTable) :
                    /\ Len(VerbTable[i][1]) <= Len(name)
                    /\ SubSeq(Lower(name), 1, Len(VerbTable[i][1])) = VerbTable[i][1]}
    IN  IF Hits = {} THEN <<"P", "O", "S", "T">>
        ELSE VerbTable[CHOOSE i \in Hits : \A j \in Hits : i <= j][2]

\* C16: the heuristic HTTP method of a callable is decided by the
\* case-insensitive prefix of its short method name, in table order, POST
\* when no prefix matches; list_namespaced_pod -> GET, deleteThing ->
\* DELETE, frobnicate -> POST, CoreV1Api.read_namespaced_pod -> GET.
C16_VerbFromShortName ==
    HeuristicRun =>
        \A i \in 1..Len(mapOut.ops) :
            LET item == mapIn.items[i]
                http == mapOut.ops[i].http_method
            IN  /\ http = MethodByPrefix(ShortName(item.qualname))
                /\ item = ItemListPod     => http = <<"G", "E", "T">>
                /\ item = ItemDeleteThing => http = <<"D", "E", "L", "E", "T", "E">>
                /\ item = ItemFrobnicate  => http = <<"P", "O", "S", "T">>
                /\ item = ItemReadPod     => http = <<"G", "E", "T">>

(***************************************************************************)
(* Claims: discovery                                                       *)
(***************************************************************************)
\* A command-line run whose discovery step has run on a library that loads.
Discovered ==
    /\ cliIn.entry = "main" /\ cliIn.importOutcome = "loads"
    /\ cli.discovery # NoDiscovery

\* The parameters left after removing the implicit receiver.
WithoutReceiver(signature) ==
    IF signature # <<>> /\ Head(signature).name \in {<<"s", "e", "l", "f">>, <<"c", "l", "s">>}
    THEN Tail(signature) ELSE signature

\* `text` holds `word`.
Holds(text, word) ==
    \E off \in 0..(Len(text) - Len(word)) :
        \A j \in 1..Len(word) : text[off + j] = word[j]

\* The decision of the usefulness filter by the first applicable rule.
UsefulByRules(m) ==
    LET lower == Lower(m.name)
    IN  CASE m.name # <<>> /\ Head(m.name) = "_"                      -> FALSE
          [] WithoutReceiver(m.signature) = <<>>                       -> FALSE
          [] \E w \in skip_patterns : Holds(lower, w)                  -> FALSE
          [] \E w \in high_priority_keywords : Holds(lower, w)         -> TRUE
          [] /\ Holds(Lower(m.module_name), <<"k", "u", "b", "e", "r", "n", "e", "t", "e", "s">>)
             /\ \E w \in k8s_operations : Holds(lower, w)             -> TRUE
          [] Len(m.docstring) > 100                                    -> TRUE
          [] OTHER                                                     -> FALSE

\* C17: discovery keeps exactly the candidates the rules include, decided
\* by the first applicable rule in the order underscore, no parameter
\* besides the receiver, skip pattern, action keyword, resource keyword of
\* the cluster-orchestration library, documentation longer than 100
\* characters; to_dict is excluded and create_namespaced_pod is included.
C17_UsefulnessFilter ==
    Discovered =>
        /\ cli.discovery.methods = SelectSeq(cliIn.members, UsefulByRules)
        /\ \A i \in 1..Len(cli.discovery.methods) :
               cli.discovery.methods[i].name # <<"t", "o", "_", "d", "i", "c", "t">>
        /\ MemberCreatePod \in Range(cliIn.members) =>
               MemberCreatePod \in Range(cli.discovery.methods)

(***************************************************************************)
(* Claims: dispatch branches of the generated server                       *)
(***************************************************************************)
\* The dot-separated segments of a recorded method path, the client key
\* (second-to-last segment, CoreV1Api when there are fewer than two) and
\* the method name (last segment).
Segments(P) == SplitAll(P, ".")
ClientKey(P) ==
    IF Len(Segments(P)) < 2 THEN <<"C", "o", "r", "e", "V", "1", "A", "p", "i">> ELSE Segments(P)[Len(Segments(P)) - 1]
LastSegment(P) == Segments(P)[Len(Segments(P))]

\* C18: in a started cluster-orchestration server whose client is set, a
\* call that names a listed tool runs the branch generated for the tool's
\* method path P: with a client stored under the client key of P the
\* method named by the last segment of P is called on that client, and
\* with none the call reports "Unknown client class" and invokes nothing.
C18_ClientClassDispatch ==
    (profile = "kubernetes" /\ Started /\ construction = "succeeds") =>
        \A i \in 1..Len(calls) :
            Listed(calls[i].name) =>
                LET b == CHOOSE k \in 1..Len(branches) :
                             /\ branches[k].name = calls[i].name
                             /\ \A j \in 1..(k - 1) : branches[j].name # calls[i].name
                    P == branches[b].method_path
                IN  /\ calls[i].branch = b
                    /\ IF ClientKey(P) \in Clients
                       THEN calls[i].env = "ok" =>
                                /\ calls[i].invoked
                                /\ calls[i].replies =
                                       <<ResultReply(ClientKey(P) \o <<".">> \o LastSegment(P)
                                                     \o calls[i].arguments)>>
                       ELSE /\ ~calls[i].invoked
                            /\ calls[i].replies =
                                   <<ErrorReply(<<"U", "n", "k", "n", "o", "w", "n", " ", "c", "l", "i", "e", "n", "t", " ", "c", "l", "a", "s", "s", ":", " ">> \o ClientKey(P))>>

\* C19: when the target library cannot be loaded, whatever exception its
\* import raises, discovery (flat and profile-guided) returns an empty
\* descriptor list and raises nothing.
C19_LoadFailureEmptyList ==
    (cli.discovery # NoDiscovery /\ cliIn.importOutcome # "loads") =>
        /\ ~cli.discovery.raised
        /\ cli.discovery.methods = <<>>

(***************************************************************************)
(* Claims: command-line run                                                *)
(***************************************************************************)
\* The stages of a command-line run in their order, and the artifacts of
\* each tier.
StageOrder == <<"credential", "discovery", "mapping", "generation", "return">>
TierArtifacts(pipeline) ==
    IF pipeline = "sdk4" THEN {"server", "config", "readme"} ELSE {"server", "config"}

\* What C20 asks of one process p of a command-line run.
OrderlyRun(p) ==
    /\ Len(p.entered) <= Len(StageOrder)
    /\ \A k \in 1..Len(p.entered) : p.entered[k] = StageOrder[k]
    /\ p.written # <<>> => "generation" \in Range(p.entered)
    /\ p.exit = 0 =>
           /\ {p.written[k].name : k \in 1..Len(p.written)} = TierArtifacts(cliIn.pipeline)
           /\ p.entered = StageOrder
    /\ (p.discovery # NoDiscovery /\ p.discovery.methods = <<>>) =>
           /\ "mapping" \notin Range(p.entered)
           /\ "generation" \notin Range(p.entered)
           /\ p.written = <<>>
           /\ p.stage = "exited" /\ p.exit > 0

\* C20: a command-line run enters discovery, mapping and generation in
\* that order and exits with code 0 only after every artifact of its tier
\* is written; when discovery yields no method, mapping and generation
\* never start, nothing is written and the exit code is not 0.
C20_StagesInOrder ==
    cliIn.entry = "main" =>
        /\ OrderlyRun(cli)
        /\ \A r \in 1..Len(runs) : OrderlyRun(runs[r])

\* An implementation-tier run that exited with code 0 after writing its
\* three artifacts.
C20_Witness ==
    /\ cliIn.entry = "main" /\ cliIn.pipeline = "sdk4"
    /\ cli.exit = 0
    /\ Len(cli.written) = 3
    /\ cli.discovery.methods # <<>>

\* What C21 asks of one process p of a run without credential: once the
\* credential check is done the process has exited with code 1, having
\* entered no further stage, loaded no library and written nothing.
StoppedAtCredential(p) ==
    p.stage # "credential" =>
        /\ p.stage = "exited" /\ p.exit = 1
        /\ p.entered = <<"credential">>
        /\ p.discovery = NoDiscovery
        /\ p.tools = <<>>
        /\ p.written = <<>>

\* C21: with neither --api-key nor OPENAI_API_KEY, a command-line run
\* exits with code 1 before discovery starts; the target library is never
\* loaded and no artifact is written.
C21_NoCredentialExit ==
    (cliIn.entry = "main" /\ ~cliIn.credential) =>
        /\ StoppedAtCredential(cli)
        /\ \A r \in 1..Len(runs) : StoppedAtCredential(runs[r])

\* A run without credential on a library that loads and has useful
\* methods, exited with code 1.
C21_Witness ==
    /\ cliIn.entry = "main" /\ ~cliIn.credential
    /\ cliIn.importOutcome = "loads"
    /\ explore_class(cliIn.members) # <<>>
    /\ cli.stage = "exited" /\ cli.exit = 1
\* C22: without a credential ask_llm returns None and sends no request, and
\* map_many with LLM assistance requested returns, item for item, the
\* operations it returns with LLM assistance off.
C22_NoCredentialHeuristicOnly ==
    /\ \A outcome \in LlmOutcomes : ask_llm(FALSE, outcome) = NoneVal
    /\ (mapOut.done /\ ~mapIn.OPENAI_KEY) =>
           /\ mapOut.requests = 0
           /\ Len(mapOut.ops) = Len(mapIn.items)
           /\ \A i \in 1..Len(mapIn.items) :
                  /\ mapOut.ops[i] = HeuristicOp(mapIn.items[i])
                  /\ map_callable(mapIn.items[i], FALSE, FALSE, mapIn.outcomes[i])
                         = [raised |-> FALSE, op |-> mapOut.ops[i]]
C22_Witness ==
    /\ mapOut.done /\ mapIn.use_llm /\ ~mapIn.OPENAI_KEY
    /\ Len(mapIn.items) = MaxItems
    /\ mapIn.outcomes[1] = ReplyBoth
    /\ mapOut.ops[1] = HeuristicOp(mapIn.items[1])

\* The operation the reply lines give when only lines beginning with
\* `http_method:` or `path:` (any letter case) count, each overwriting its own
\* field with the trimmed text after the colon.
RECURSIVE OverwriteByLabel(_, _)
OverwriteByLabel(lines, op) ==
    IF lines = <<>> THEN op
    ELSE LET line  == Head(lines)
             after == SplitOnce(line, ":")
             op1   == IF StartsWith(Lower(line), <<"h", "t", "t", "p", "_", "m", "e", "t", "h", "o", "d", ":">>)
                      THEN [op EXCEPT !.http_method = Strip(after[2])]
                      ELSE IF StartsWith(Lower(line), <<"p", "a", "t", "h", ":">>)
                      THEN [op EXCEPT !.path = Strip(after[2])]
                      ELSE op
         IN  OverwriteByLabel(Tail(lines), op1)

\* C23: when the mapper consults the LLM, every callable is mapped, and its
\* operation is the heuristic one changed only by the reply lines beginning
\* with `http_method:` or `path:`; any other reply leaves the heuristic
\* operation.
C23_OnlyLabelledLinesOverwrite ==
    (mapOut.done /\ mapIn.use_llm /\ mapIn.OPENAI_KEY) =>
        /\ Len(mapOut.ops) = Len(mapIn.items)
        /\ \A i \in 1..Len(mapIn.items) :
               LET llm == mapIn.outcomes[i]
                   op  == HeuristicOp(mapIn.items[i])
               IN  mapOut.ops[i] =
                       IF llm = LlmFailure \/ llm = <<>> THEN op
                       ELSE OverwriteByLabel(SplitAll(llm, "\n"), op)

\* One request as the registry sees it: a /register appends its request
\* object at the end and replies {registered: that object}; /invoke and
\* /health leave the registry as it is; so the registry is always the seeded
\* entries followed by every registered object in arrival order.
C24_Step ==
    /\ last'.ep \in {"register", "invoke", "health"}
    /\ IF last'.ep = "register" /\ ROUTES' # ROUTES
       THEN /\ last'.status = 200 /\ last'.body = <<"r", "e", "g", "i", "s", "t", "e", "r", "e", "d">>
            /\ ROUTES' = Append(ROUTES, last'.route)
            /\ registered' = Append(registered, last'.route)
       ELSE /\ ROUTES' = ROUTES
            /\ registered' = registered
    /\ ROUTES' = seeded \o registered'
EarliestIndex(routes, opid) ==
    IF \E i \in 1..Len(routes) : GetOperationId(routes[i]) = opid
    THEN CHOOSE i \in 1..Len(routes) :
             /\ GetOperationId(routes[i]) = opid
             /\ \A j \in 1..(i - 1) : GetOperationId(routes[j]) # opid
    ELSE 0

\* One request: /invoke answers from the earliest entry carrying the requested
\* operationId, as if that entry were alone in the registry (500 when it has
\* no callable, whatever later entries hold), and a /register of an
\* operationId that is already present changes no /invoke reply for it.
C25_Step ==
    /\ (last'.ep = "invoke" /\ last'.payload.hasOpId
            /\ EarliestIndex(ROUTES', last'.payload.operationId) > 0) =>
           LET e == ROUTES'[EarliestIndex(ROUTES', last'.payload.operationId)]
               r == InvokeResponse(<<e>>, last'.payload)
           IN  /\ last'.status = r.status /\ last'.body = r.body
               /\ ~Truthy(GetCallable(e)) => last'.status = 500
    /\ \A p \in Payloads :
           (p.hasOpId /\ EarliestIndex(ROUTES, p.operationId) > 0) =>
               /\ EarliestIndex(ROUTES', p.operationId)
                      = EarliestIndex(ROUTES, p.operationId)
               /\ InvokeResponse(ROUTES', p) = InvokeResponse(ROUTES, p)
\* C25: /invoke always resolves the earliest entry carrying the requested
\* operationId, and a later /register of that operationId changes nothing
\* for it.
C25_EarliestEntryWins == [][C25_Step]_vars
C25_Witness ==
    /\ Len(seeded) >= 1 /\ Len(registered) >= 1
    /\ GetOperationId(seeded[1]) = OpA /\ ~Truthy(GetCallable(seeded[1]))
    /\ GetOperationId(registered[1]) = OpA /\ GetCallable(registered[1]) = CallOk
    /\ last.ep = "invoke" /\ last.payload.hasOpId /\ last.payload.operationId = OpA
    /\ last.status = 500

\* A finished run of the implementation tier's analyze_methods.
AnalyzedRunSdk4 ==
    toolOut.done /\ toolOut.analyzed /\ toolIn.pipeline = "sdk4"

\* The essential-subset score of the method a tool of the run comes from:
\* +10 for a name containing a keyword of the profile, +2 for documentation
\* longer than 50 characters, -5 for a name longer than 40 characters.
SourceScore(tool) ==
    LET method == CHOOSE m \in Range(toolIn.methods) : m.full_path = tool.method_path
        keywords == EssentialPatterns(toolIn.methods[1].module_name)
    IN  (IF \E k \in keywords : Contains(Lower(method.name), k) THEN 10 ELSE 0)
        + (IF Len(method.docstring) > 50 THEN 2 ELSE 0)
        - (IF Len(method.name) > 40 THEN 5 ELSE 0)

\* Every emitted tool comes from a method of positive score, the tools are
\* in non-increasing score order, and there are at most 15 of them.
EssentialSubset(tools) ==
    /\ Len(tools) <= 15
    /\ \A i \in 1..Len(tools) :
           /\ \E m \in Range(toolIn.methods) : m.full_path = tools[i].method_path
           /\ SourceScore(tools[i]) > 0
    /\ \A i, j \in 1..Len(tools) :
           i < j => SourceScore(tools[i]) >= SourceScore(tools[j])

CategoryRules ==
    << <<{<<"c", "r", "e", "a", "t", "e">>, <<"p", "o", "s", "t">>}, "create">>,
       <<{<<"l", "i", "s", "t">>, <<"g", "e", "t">>, <<"r", "e", "a", "d">>, <<"f", "e", "t", "c", "h">>}, "read">>,
       <<{<<"u", "p", "d", "a", "t", "e">>, <<"p", "a", "t", "c", "h">>, <<"p", "u", "t">>, <<"e", "d", "i", "t">>}, "update">>,
       <<{<<"d", "e", "l", "e", "t", "e">>, <<"r", "e", "m", "o", "v", "e">>}, "delete">> >>
CategoryByRule(name) ==
    LET I == {i \in 1..Len(CategoryRules) :
                 \E k \in CategoryRules[i][1] : Contains(Lower(name), k)}
    IN  IF I = {} THEN "other"
        ELSE CategoryRules[CHOOSE i \in I : \A j \in I : i <= j][2]

\* C27: every tool an analyzer returns has a category among create, read,
\* update, delete, other, and it is the one the first matching rule gives
\* its lower-cased name.
C27_CategoryByFirstRule ==
    (toolOut.done /\ toolOut.analyzed) =>
        \A i \in 1..Len(toolOut.tools) :
            /\ toolOut.tools[i].category \in {"create", "read", "update", "delete", "other"}
            /\ toolOut.tools[i].category = CategoryByRule(toolOut.tools[i].name)

\* The result of mapping item i of the run on its own.
MappedAlone(i) ==
    map_callable(mapIn.items[i], mapIn.use_llm, mapIn.OPENAI_KEY, mapIn.outcomes[i])
\* The positions of the items whose own mapping succeeds.
Succeeding == {i \in 1..Len(mapIn.items) : ~MappedAlone(i).raised}

\* C28: map_many returns, in input order, the operations of exactly the items
\* whose own mapping succeeds; a failing item is skipped and changes no
\* other item's operation.
C28_FailingItemsSkipped ==
    mapOut.done =>
        /\ Len(mapOut.ops) = Cardinality(Succeeding)
        /\ \A i \in Succeeding :
               mapOut.ops[Cardinality({j \in Succeeding : j <= i})] = MappedAlone(i).op
C28_Witness ==
    /\ mapOut.done
    /\ Len(mapIn.items) = 2
    /\ MappedAlone(1).raised /\ ~MappedAlone(2).raised
    /\ mapIn.outcomes[2] = ReplyBoth
    /\ mapOut.ops = <<MappedAlone(2).op>>

(***************************************************************************)
(* Claims: tool list and dispatch branches of the generated server         *)
(***************************************************************************)
\* C30: the static tool list and the dispatch branches of a generated
\* implementation-tier server name the same tools in the same order, so in a
\* started server whose client is set a call naming a listed tool is served
\* by the first branch carrying that name, and a call naming an unlisted
\* tool enters no branch.
C30_ListedToolsDispatched ==
    /\ Len(TOOLS) = Len(branches)
    /\ \A i \in 1..Len(TOOLS) : TOOLS[i] = branches[i].name
    /\ (Started /\ construction = "succeeds") =>
           \A i \in 1..Len(calls) :
               IF Listed(calls[i].name)
               THEN /\ calls[i].served
                    /\ calls[i].branch \in 1..Len(branches)
                    /\ branches[calls[i].branch].name = calls[i].name
                    /\ \A j \in 1..(calls[i].branch - 1) :
                           branches[j].name # calls[i].name
               ELSE calls[i].branch = 0

(***************************************************************************)
(* Claims: dynamic auto-registrar                                          *)
(***************************************************************************)
\* The routes discovery calls for: POST /<full name> for every entry of the
\* mapping, in the mapping's order.
RoutesFor(functions) ==
    [i \in 1..Len(functions) |-> [method |-> "POST", path |-> <<"/">> \o functions[i]]]

IsPrefix(s, u) == Len(s) <= Len(u) /\ SubSeq(u, 1, Len(s)) = s

\* One step of the registrar: it passes through credential check, discovery, route
\* binding and listening in that order; without OPENAI_API_KEY it exits
\* with no route bound and never listens; it listens, on port 8000, only
\* once one POST route per entry of the discovered mapping is bound; and no
\* route is added while it listens.
C29_Step ==
    /\ IsPrefix(auto'.entered, <<"credential", "discovery", "binding", "listening">>)
    /\ ~autoIn.credential =>
           /\ auto'.stage = "exited" /\ auto'.exit = 1
           /\ auto'.entered = <<"credential">>
           /\ auto'.routes = <<>> /\ auto'.port = 0
    /\ (auto'.port # 0 \/ auto'.stage = "listening") =>
           /\ auto'.stage = "listening" /\ auto'.port = 8000
           /\ autoIn.credential
           /\ auto'.functions = autoIn.functions
           /\ auto'.routes = RoutesFor(auto'.functions)
    /\ auto.stage = "listening" =>
           /\ auto'.stage = "listening"
           /\ auto'.routes = auto.routes
\* C29: credential check, then discovery and route binding, then listening;
\* no listening without the credential or before every route is bound, and
\* no route added while listening.
C29_StartOrder == [][C29_Step]_vars
C29_Witness ==
    /\ autoIn.credential
    /\ Len(autoIn.functions) = MaxFunctions
    /\ auto.stage = "listening" /\ auto.port = 8000
    /\ Len(auto.routes) = MaxFunctions
    /\ Len(auto.served) = MaxRequests
    /\ auto.served[1].reply = "error"

====
